---- MODULE Spec2Model ----
(***************************************************************************)
(* Model of the Renesas R-Car I2C controller driver                        *)
(* (drivers/i2c/busses/i2c-rcar.c): the clock calculator, the DMA offload  *)
(* manager, the master transfer state machine with its two interrupt front *)
(* ends, and the blocking and atomic transfer entry points.                *)
(*                                                                         *)
(* The driver code is modelled by operators named after the C functions.   *)
(* They work on a record c = [priv, io, obs]:                              *)
(*   priv  struct rcar_i2c_priv (priv.msg is the message priv->msg points  *)
(*         at, priv.msg_idx its index in the batch)                        *)
(*   io    the register block                                              *)
(*   obs   observations for the properties (register writes of the current *)
(*         event, bytes put on the data port, ...); no code reads them     *)
(* The controller hardware and the target on the bus are the environment:  *)
(* the Hw... actions.                                                      *)
(***************************************************************************)
EXTENDS Integers, Sequences, FiniteSets, TLC

VARIABLES priv, io, obs, hw, thr, clk, api, isr

vars == <<priv, io, obs, hw, thr, clk, api, isr>>

(***************************************************************************)
(* Bounds of the model                                                     *)
(***************************************************************************)
MaxShort == 2        \* short messages have 1..MaxShort bytes
MaxMsgs == 2         \* most messages in one batch
MaxSpurious == 1     \* most unexpected data-phase events per transfer
MaxSlaveCalls == 3   \* most calls of the responder registration API
MaxSlaveEvents == 2  \* most responder statuses the controller raises

(***************************************************************************)
(* Program constants                                                       *)
(***************************************************************************)
RCAR_MIN_DMA_LEN == 8
I2C_SMBUS_BLOCK_MAX == 32

I2C_RCAR_GEN1 == 0
I2C_RCAR_GEN2 == 1
I2C_RCAR_GEN3 == 2
I2C_RCAR_GEN4 == 3

\* ICMCR phases, as sets of bits
RCAR_BUS_PHASE_START == {"MDBS", "MIE", "ESG"}
RCAR_BUS_PHASE_DATA == {"MDBS", "MIE"}
RCAR_BUS_PHASE_STOP == {"MDBS", "MIE", "FSB"}

\* ICMSR / ICMIER bits
MSR_BITS == {"MNR", "MAL", "MST", "MDE", "MDT", "MDR", "MAT"}
RCAR_IRQ_SEND == {"MNR", "MAL", "MST", "MAT", "MDE"}
RCAR_IRQ_RECV == {"MNR", "MAL", "MST", "MAT", "MDR"}
\* variant: the NACK status stays enabled next to the stop status
StopAndNack == {"MST", "MNR"}
RCAR_IRQ_STOP == {"MST"}

\* persistent flags
ID_P_MASK == {"ID_P_FMPLUS", "ID_P_NOT_ATOMIC", "ID_P_HOST_NOTIFY",
              "ID_P_NO_RXDMA", "ID_P_PM_BLOCKED"}
ID_TRANSIENT == {"ID_LAST_MSG", "ID_REP_AFTER_RD", "ID_DONE", "ID_ARBLOST",
                 "ID_NACK", "ID_EPROTO"}

\* what an entry point returns: an errno or, from a transfer, the number of
\* messages; Pending while it has not returned
OK == "OK"
Err(e) == [err |-> e, count |-> 0]
Count(n) == [err |-> OK, count |-> n]
Pending == [err |-> "pending", count |-> 0]

ENXIO == "ENXIO"
EAGAIN == "EAGAIN"
EPROTO == "EPROTO"
ETIMEDOUT == "ETIMEDOUT"
EBUSY_BUS == "EBUSY"

(***************************************************************************)
(* Messages.  A transmit buffer holds TxByte(i) at index i; a receive      *)
(* buffer starts untouched (Untouched at every index).  A length-prefixed  *)
(* receive buffer has room for I2C_SMBUS_BLOCK_MAX more bytes.             *)
(***************************************************************************)
Untouched == 0 - 1
TxByte(i) == 16 + i
SLAVE_ADDR == 5 * 16  \* 0x50, the target every message addresses

BufCap(len, recv_len) == IF recv_len THEN len + I2C_SMBUS_BLOCK_MAX ELSE len

NewMsg(rd, len, recv_len, dma_safe) ==
    [rd |-> rd, len |-> len, recv_len |-> recv_len, dma_safe |-> dma_safe,
     addr |-> SLAVE_ADDR,
     buf |-> [i \in 0..(BufCap(len, recv_len) - 1) |->
                 IF rd THEN Untouched ELSE TxByte(i)]]

\* the lengths a caller submits: short ones and the two around the DMA
\* threshold
Lens == (1..MaxShort) \cup {RCAR_MIN_DMA_LEN - 1, RCAR_MIN_DMA_LEN}

\* the messages a caller submits.  I2C_M_DMA_SAFE is left out where no path
\* reads it: a message shorter than RCAR_MIN_DMA_LEN - 1 whose length is final
Msgs == {NewMsg(rd, len, rl, ds) :
            rd \in BOOLEAN, len \in Lens, rl \in BOOLEAN, ds \in BOOLEAN}
        \ ({NewMsg(FALSE, len, TRUE, ds) : len \in Lens, ds \in BOOLEAN}
           \cup {NewMsg(rd, len, FALSE, TRUE) :
                    rd \in BOOLEAN, len \in 1..(RCAR_MIN_DMA_LEN - 2)})

NoMsg == NewMsg(FALSE, 1, FALSE, FALSE)

\* i2c_8bit_addr_from_msg()
i2c_8bit_addr_from_msg(m) == 2 * m.addr + (IF m.rd THEN 1 ELSE 0)

(***************************************************************************)
(* Register access                                                         *)
(***************************************************************************)
\* obs.starts counts the writes of the start phase to ICMCR
Logged(c, reg, val) ==
    [c EXCEPT !.obs.wr = Append(@, <<reg, val>>),
              !.obs.starts = @ + (IF reg = "ICMCR" /\ val = RCAR_BUS_PHASE_START
                                  THEN 1 ELSE 0)]

\* rcar_i2c_write() to a plain register
rcar_i2c_write(c, reg, val) ==
    [Logged(c, reg, val) EXCEPT !.io[reg] = val]

\* rcar_i2c_write() to ICMSR: a status bit written as 0 is cleared, a bit
\* written as 1 keeps its value
rcar_i2c_write_icmsr(c, val) ==
    [Logged(c, "ICMSR", val) EXCEPT !.io.ICMSR = @ \cap val]

\* rcar_i2c_write() to the data port: the byte goes to the bus
rcar_i2c_write_icrxtx(c, byte) ==
    [Logged(c, "ICRXTX", byte) EXCEPT
        !.obs.tx = Append(@, byte)]

\* writel(~val & 0x7f, ICMSR)
rcar_i2c_clear_irq(c, val) == rcar_i2c_write_icmsr(c, MSR_BITS \ val)

\* variant: the read ignores the index
BufReadFirst(c, i) == c.priv.msg.buf[0]

\* msg->buf[i], as a read and as a write; obs.oob records an index outside
\* the message
BufRead(c, i) == c.priv.msg.buf[i]
Touch(c, i) ==
    [c EXCEPT !.obs.oob = @ \/ i < 0 \/ i >= c.priv.msg.len]
BufWrite(c, i, b) ==
    [Touch(c, i) EXCEPT !.priv.msg.buf[i] = b,
                        !.obs.pio = @ \cup {i}]

rcar_i2c_is_recv(c) == c.priv.msg.rd

(***************************************************************************)
(* Message preparation                                                     *)
(***************************************************************************)
\* variant: the flags of the message before are kept
prepare_msg_keeps_flags(c) ==
    LET c1 == [c EXCEPT !.priv.pos = 0,
                        !.priv.flags = @ \cup
                            (IF c.priv.msgs_left = 1 THEN {"ID_LAST_MSG"} ELSE {})]
        c2 == rcar_i2c_write(c1, "ICMAR", i2c_8bit_addr_from_msg(c1.priv.msg))
        c3 == IF "ID_P_NOT_ATOMIC" \in c2.priv.flags
              THEN rcar_i2c_write(c2, "ICMIER",
                                  IF c.priv.msg.rd THEN RCAR_IRQ_RECV
                                  ELSE RCAR_IRQ_SEND)
              ELSE c2
    IN  IF "ID_REP_AFTER_RD" \notin c.priv.flags
        THEN rcar_i2c_write(c3, "ICMCR", RCAR_BUS_PHASE_START)
        ELSE c3

rcar_i2c_prepare_msg(c) ==
    LET read == rcar_i2c_is_recv(c)
        rep_start == "ID_REP_AFTER_RD" \notin c.priv.flags
        c1 == [c EXCEPT !.priv.pos = 0,
                        !.priv.flags = (@ \cap ID_P_MASK) \cup
                            (IF c.priv.msgs_left = 1 THEN {"ID_LAST_MSG"} ELSE {})]
        c2 == rcar_i2c_write(c1, "ICMAR", i2c_8bit_addr_from_msg(c1.priv.msg))
        c3 == IF "ID_P_NOT_ATOMIC" \in c2.priv.flags
              THEN rcar_i2c_write(c2, "ICMIER",
                                  IF read THEN RCAR_IRQ_RECV ELSE RCAR_IRQ_SEND)
              ELSE c2
    IN  IF rep_start THEN rcar_i2c_write(c3, "ICMCR", RCAR_BUS_PHASE_START)
        ELSE c3

\* priv->msg is made to point at message idx of the batch; the observations
\* of the data port and of the buffer start again
SetMsg(c, m, idx) ==
    [c EXCEPT !.priv.msg = m, !.priv.msg_idx = idx,
              !.obs.tx = <<>>, !.obs.pio = {}]

\* variant: the status is cleared after the message is prepared
first_msg_clears_after(c, msgs, num) ==
    rcar_i2c_write_icmsr(
        rcar_i2c_prepare_msg([SetMsg(c, msgs, 1) EXCEPT !.priv.msgs_left = num]),
        {})

\* msgs is the first message of the batch, num the number of messages
rcar_i2c_first_msg(c, msgs, num) ==
    LET c1 == [SetMsg(c, msgs, 1) EXCEPT !.priv.msgs_left = num]
        c2 == rcar_i2c_write_icmsr(c1, {})   \* must be before preparing msg
    IN  rcar_i2c_prepare_msg(c2)

\* variant: msgs_left is not counted down
next_msg_keeps_count(c, next) ==
    rcar_i2c_prepare_msg(SetMsg(c, next, c.priv.msg_idx + 1))

\* priv->msg++: next is the message that follows priv->msg in the batch
rcar_i2c_next_msg(c, next) ==
    rcar_i2c_prepare_msg(
        [SetMsg(c, next, c.priv.msg_idx + 1) EXCEPT !.priv.msgs_left = @ - 1])

(***************************************************************************)
(* DMA offload                                                             *)
(***************************************************************************)
DMA_NONE == "DMA_NONE"
DMA_TO_DEVICE == "DMA_TO_DEVICE"
DMA_FROM_DEVICE == "DMA_FROM_DEVICE"

\* what the DMA engine answers to one offload attempt
DmaOutcomes == {"ok", "map_err", "prep_err", "submit_err"}

\* variant: the cleanup never forbids a further receive offload
cleanup_dma_allows_rxdma(c, terminate) ==
    rcar_i2c_write([c EXCEPT !.obs.mapped = @ - 1, !.obs.unmaps = @ + 1,
                             !.obs.inflight = @ /\ ~terminate,
                             !.obs.terminated = @ + (IF terminate THEN 1 ELSE 0),
                             !.priv.dma_direction = DMA_NONE],
                   "ICDMAER", {})

\* variant: the cleanup moves the position on by one
cleanup_dma_skips_byte(c, terminate) ==
    rcar_i2c_write([c EXCEPT !.obs.mapped = @ - 1, !.obs.unmaps = @ + 1,
                             !.priv.pos = @ + 1,
                             !.priv.dma_direction = DMA_NONE],
                   "ICDMAER", {})

rcar_i2c_cleanup_dma(c, terminate) ==
    LET \* dmaengine_terminate_sync(): the descriptor no longer completes
        c1 == IF terminate THEN [c EXCEPT !.obs.inflight = FALSE,
                                          !.obs.terminated = @ + 1]
              ELSE c
        \* dma_unmap_single()
        c2 == [c1 EXCEPT !.obs.mapped = @ - 1, !.obs.unmaps = @ + 1]
        c3 == IF c2.priv.devtype >= I2C_RCAR_GEN3
                 /\ c2.priv.dma_direction = DMA_FROM_DEVICE
              THEN [c2 EXCEPT !.priv.flags = @ \cup {"ID_P_NO_RXDMA"}]
              ELSE c2
        c4 == [c3 EXCEPT !.priv.dma_direction = DMA_NONE]
    IN  rcar_i2c_write(c4, "ICDMAER", {})    \* must be last

\* variant: the position advances by the whole message
dma_callback_adds_msg_len(c) ==
    rcar_i2c_cleanup_dma([c EXCEPT !.priv.pos = @ + c.priv.msg.len], FALSE)

rcar_i2c_dma_callback(c) ==
    rcar_i2c_cleanup_dma([c EXCEPT !.priv.pos = @ + c.priv.sg_len], FALSE)

\* variant: an atomic transfer may use DMA as well
DmaFeasibleWhenAtomic(c) ==
    /\ IF c.priv.msg.rd THEN c.priv.dma_rx ELSE c.priv.dma_tx
    /\ c.priv.msg.len >= RCAR_MIN_DMA_LEN /\ c.priv.msg.dma_safe
    /\ ~(c.priv.msg.rd /\ "ID_P_NO_RXDMA" \in c.priv.flags)

\* the checks of rcar_i2c_dma(): is DMA feasible at all
DmaFeasible(c) ==
    LET read == c.priv.msg.rd
        chan == IF read THEN c.priv.dma_rx ELSE c.priv.dma_tx
    IN  ~ (\/ "ID_P_NOT_ATOMIC" \notin c.priv.flags
           \/ ~chan                           \* IS_ERR(chan)
           \/ c.priv.msg.len < RCAR_MIN_DMA_LEN
           \/ ~c.priv.msg.dma_safe
           \/ (read /\ "ID_P_NO_RXDMA" \in c.priv.flags))

\* variant: the whole buffer is handed to DMA
DmaRangeWhole(c) == [off |-> 0, len |-> c.priv.msg.len]

\* the part of the buffer handed to DMA: [off, len]
DmaRange(c) ==
    IF c.priv.msg.rd
    THEN [off |-> 0, len |-> c.priv.msg.len - 2]   \* last two bytes by PIO
    ELSE [off |-> 1, len |-> c.priv.msg.len - 1]   \* first byte was sent by PIO

\* obs.fails counts the offload attempts the DMA engine has failed
DmaFailed(c) == [c EXCEPT !.obs.fails = @ + 1]

\* rcar_i2c_dma(): [c, ok]; r is the DMA engine's answer
rcar_i2c_dma(c, r) ==
    IF ~DmaFeasible(c) THEN [c |-> c, ok |-> FALSE]
    ELSE IF r = "map_err" THEN [c |-> DmaFailed(c), ok |-> FALSE]
    ELSE
      LET read == c.priv.msg.rd
          rng == DmaRange(c)
          c1 == [c EXCEPT !.obs.mapped = @ + 1, !.obs.maps = @ + 1,
                          !.priv.sg_len = rng.len, !.priv.sg_off = rng.off,
                          !.priv.dma_direction =
                              IF read THEN DMA_FROM_DEVICE ELSE DMA_TO_DEVICE]
      IN  IF r \in {"prep_err", "submit_err"}
          THEN [c |-> rcar_i2c_cleanup_dma(DmaFailed(c1), FALSE), ok |-> FALSE]
          ELSE [c |-> [rcar_i2c_write(c1, "ICDMAER",
                                      IF read THEN {"RMDMAE"} ELSE {"TMDMAE"})
                         EXCEPT !.obs.inflight = TRUE,
                                !.obs.rx = @ + (IF read THEN 1 ELSE 0),
                                !.obs.dma =
                                    [idx |-> c.priv.msg_idx, rd |-> read,
                                     off |-> rng.off, len |-> rng.len,
                                     msglen |-> c.priv.msg.len]],
                ok |-> TRUE]

(***************************************************************************)
(* The master interrupt handler.  e = [next, dma] are the inputs an event  *)
(* may consume: the message after the current one and the DMA engine's     *)
(* answer to an offload attempt.                                           *)
(***************************************************************************)
rcar_i2c_irq_send(c, msr, e) ==
    IF "MDE" \notin msr THEN c               \* spurious irq: do nothing
    ELSE
      LET irqs_to_clear == {"MDE"} \cup (msr \cap {"MAT"})
          d == IF c.priv.pos = 1 THEN rcar_i2c_dma(c, e.dma)
               ELSE [c |-> c, ok |-> FALSE]
          c1 == d.c
      IN  IF d.ok THEN c1
          ELSE rcar_i2c_clear_irq(
                 IF c1.priv.pos < c1.priv.msg.len
                 THEN [rcar_i2c_write_icrxtx(Touch(c1, c1.priv.pos),
                                             BufRead(c1, c1.priv.pos))
                         EXCEPT !.priv.pos = @ + 1]
                 ELSE IF "ID_LAST_MSG" \in c1.priv.flags
                 THEN rcar_i2c_write(c1, "ICMCR", RCAR_BUS_PHASE_STOP)
                 ELSE rcar_i2c_next_msg(c1, e.next),
                 irqs_to_clear)

\* the tail of rcar_i2c_irq_recv(): phase change before the last byte,
\* next message after it, status clearing
irq_recv_tail(c, recv_len_init, irqs_to_clear, e) ==
    LET c1 == IF c.priv.pos + 1 = c.priv.msg.len /\ ~recv_len_init
              THEN IF "ID_LAST_MSG" \in c.priv.flags
                   THEN rcar_i2c_write(c, "ICMCR", RCAR_BUS_PHASE_STOP)
                   ELSE [rcar_i2c_write(c, "ICMCR", RCAR_BUS_PHASE_START)
                           EXCEPT !.priv.flags = @ \cup {"ID_REP_AFTER_RD"}]
              ELSE c
        c2 == IF c1.priv.pos = c1.priv.msg.len
                 /\ "ID_LAST_MSG" \notin c1.priv.flags
              THEN rcar_i2c_next_msg(c1, e.next)
              ELSE c1
    IN  rcar_i2c_clear_irq(c2, irqs_to_clear)

rcar_i2c_irq_recv(c, msr, e) ==
    LET recv_len_init == c.priv.pos = 0 /\ c.priv.msg.recv_len
    IN
    IF "MDR" \notin msr THEN c               \* unknown interrupt: do nothing
    ELSE IF "MAT" \in msr
    THEN \* address phase finished, no data yet: try to use DMA
         irq_recv_tail(rcar_i2c_dma(c, e.dma).c, recv_len_init,
                       {"MDR", "MAT"}, e)
    ELSE IF c.priv.pos < c.priv.msg.len
    THEN LET data == c.io.ICRXTX
             c1 == BufWrite(c, c.priv.pos, data)
         IN  IF recv_len_init
             THEN IF data = 0 \/ data > I2C_SMBUS_BLOCK_MAX
                  THEN [c1 EXCEPT !.priv.flags = @ \cup {"ID_DONE", "ID_EPROTO"}]
                  ELSE LET c2 == [Touch(c1, 0) EXCEPT
                                     !.priv.msg.len = @ + BufRead(c1, 0)]
                           d == rcar_i2c_dma(c2, e.dma)
                       IN  IF d.ok THEN d.c
                           ELSE irq_recv_tail(
                                    [d.c EXCEPT !.priv.pos = @ + 1],
                                    FALSE, {"MDR"}, e)
             ELSE irq_recv_tail([c1 EXCEPT !.priv.pos = @ + 1],
                                recv_len_init, {"MDR"}, e)
    ELSE irq_recv_tail(c, recv_len_init, {"MDR"}, e)

(***************************************************************************)
(* The responder interrupt handler.  e.sl says whether the backend answers *)
(* an event with an error.                                                 *)
(***************************************************************************)
SSR_BITS == {"GCAR", "STM", "SSR", "SDE", "SDT", "SDR", "SAR"}

\* the byte a backend hands over for the master to read
SlaveValue == 5 * 16 + 10    \* 0x5a

\* rcar_i2c_write() to ICSSR: a status bit written as 0 is cleared
rcar_i2c_write_icssr(c, val) ==
    [Logged(c, "ICSSR", val) EXCEPT !.io.ICSSR = @ \cap val]

\* i2c_slave_event(priv->slave, ev, &value)
i2c_slave_event(c, ev) ==
    [c EXCEPT !.obs.sev = Append(@, ev),
              !.obs.orphan = @ \/ ~c.priv.slave]

\* variant: the status is not filtered by the enabled interrupts
slave_irq_unfiltered(c, e) ==
    IF c.io.ICSSR = {} THEN [c |-> c, ret |-> FALSE]
    ELSE [c |-> rcar_i2c_write_icssr(i2c_slave_event(c, "I2C_SLAVE_STOP"), {}),
          ret |-> TRUE]

\* the backend answered an event with an error
slave_nack(c, e) == IF e.sl THEN [c EXCEPT !.priv.slave_nack = TRUE] ELSE c

\* rcar_i2c_slave_irq(), address detected: read or write request
slave_irq_sar(c, ssr_raw, e) ==
    rcar_i2c_write_icssr(
        IF "STM" \in ssr_raw
        THEN rcar_i2c_write(
                 rcar_i2c_write_icrxtx(
                     i2c_slave_event(c, "I2C_SLAVE_READ_REQUESTED"), SlaveValue),
                 "ICSIER", {"SDE", "SSR", "SAR"})
        ELSE rcar_i2c_write(
                 slave_nack(i2c_slave_event(c, "I2C_SLAVE_WRITE_REQUESTED"), e),
                 "ICSIER", {"SDR", "SSR", "SAR"}),
        SSR_BITS \ {"SAR", "SSR"})

\* master sent stop
slave_irq_ssr(c) ==
    rcar_i2c_write_icssr(
        rcar_i2c_write(
            [rcar_i2c_write(i2c_slave_event(c, "I2C_SLAVE_STOP"),
                            "ICSCR", {"SIE", "SDBS"})
               EXCEPT !.priv.slave_nack = FALSE],
            "ICSIER", {"SAR"}),
        SSR_BITS \ {"SSR"})

\* master wants to write to us
slave_irq_sdr(c, e) ==
    LET d == slave_nack(i2c_slave_event(c, "I2C_SLAVE_WRITE_RECEIVED"), e)
    IN  rcar_i2c_write_icssr(
            rcar_i2c_write(d, "ICSCR",
                           IF d.priv.slave_nack THEN {"SIE", "SDBS", "FNA"}
                           ELSE {"SIE", "SDBS"}),
            SSR_BITS \ {"SDR"})

\* master wants to read from us
slave_irq_sde(c) ==
    rcar_i2c_write_icssr(
        rcar_i2c_write_icrxtx(i2c_slave_event(c, "I2C_SLAVE_READ_PROCESSED"),
                              SlaveValue),
        SSR_BITS \ {"SDE"})

\* one if statement of rcar_i2c_slave_irq(): r = [c, raw, filtered]
slave_irq_if(r, bit, e) ==
    IF bit \notin r.filtered THEN r
    ELSE [r EXCEPT !.c = IF bit = "SAR" THEN slave_irq_sar(r.c, r.raw, e)
                         ELSE IF bit = "SSR" THEN slave_irq_ssr(r.c)
                         ELSE IF bit = "SDR" THEN slave_irq_sdr(r.c, e)
                         ELSE slave_irq_sde(r.c)]

\* rcar_i2c_slave_irq(): [c, ret]
rcar_i2c_slave_irq(c, e) ==
    LET ssr_raw == c.io.ICSSR
        r == [c |-> c, raw |-> ssr_raw, filtered |-> ssr_raw \cap c.io.ICSIER]
    IN  IF r.filtered = {} THEN [c |-> c, ret |-> FALSE]
        ELSE [c |-> slave_irq_if(
                      slave_irq_if(
                        slave_irq_if(slave_irq_if(r, "SAR", e), "SSR", e),
                        "SDR", e),
                      "SDE", e).c,
              ret |-> TRUE]

\* variant: the master interrupts stay enabled
irq_out_keeps_enabled(c) ==
    IF "ID_DONE" \in c.priv.flags
    THEN LET c2 == rcar_i2c_write_icmsr(c, {})
         IN  IF "ID_P_NOT_ATOMIC" \in c2.priv.flags
             THEN [c2 EXCEPT !.obs.wakeups = @ + 1]
             ELSE c2
    ELSE c

\* the label out: of rcar_i2c_irq()
irq_out(c) ==
    IF "ID_DONE" \in c.priv.flags
    THEN LET c1 == rcar_i2c_write(c, "ICMIER", {})
             c2 == rcar_i2c_write_icmsr(c1, {})
         IN  IF "ID_P_NOT_ATOMIC" \in c2.priv.flags
             THEN [c2 EXCEPT !.obs.wakeups = @ + 1]      \* wake_up()
             ELSE c2
    ELSE c

\* rcar_i2c_irq(); without a master status the event belongs to the
\* responder side
rcar_i2c_irq(c, msr, e) ==
    IF msr = {}
    THEN LET r == rcar_i2c_slave_irq(c, e)
         IN  [r.c EXCEPT !.obs.sirq = IF r.ret THEN "true" ELSE "false"]
    ELSE IF "MAL" \in msr                    \* arbitration lost
    THEN irq_out([c EXCEPT !.priv.flags = @ \cup {"ID_DONE", "ID_ARBLOST"}])
    ELSE IF "MNR" \in msr                    \* nack
    THEN LET c1 == IF "ID_P_NOT_ATOMIC" \in c.priv.flags
                   THEN rcar_i2c_write(c, "ICMIER", RCAR_IRQ_STOP)
                   ELSE c
         IN  irq_out([c1 EXCEPT !.priv.flags = @ \cup {"ID_NACK"}])
    ELSE IF "MST" \in msr                    \* stop
    THEN irq_out([c EXCEPT !.priv.msgs_left = @ - 1,
                           !.priv.flags = @ \cup {"ID_DONE"}])
    ELSE IF rcar_i2c_is_recv(c)
    THEN irq_out(rcar_i2c_irq_recv(c, msr, e))
    ELSE irq_out(rcar_i2c_irq_send(c, msr, e))

\* msr as both front ends read it: only the enabled interrupts when the
\* transfer may sleep, the raw status otherwise
ReadMsr(c) ==
    IF "ID_P_NOT_ATOMIC" \in c.priv.flags
    THEN c.io.ICMSR \cap c.io.ICMIER
    ELSE c.io.ICMSR

rcar_i2c_gen2_irq(c, e) ==
    LET c1 == IF "ID_REP_AFTER_RD" \notin c.priv.flags
              THEN rcar_i2c_write(c, "ICMCR", RCAR_BUS_PHASE_DATA)
              ELSE c
    IN  rcar_i2c_irq(c1, ReadMsr(c1), e)

rcar_i2c_gen3_irq(c, e) ==
    LET msr == ReadMsr(c)
        c1 == IF "ID_REP_AFTER_RD" \notin c.priv.flags /\ msr # {}
              THEN rcar_i2c_write(c, "ICMCR", RCAR_BUS_PHASE_DATA)
              ELSE c
    IN  rcar_i2c_irq(c1, msr, e)

\* the handler the probe installs for the controller generation
irqhandler(c, e) ==
    IF c.priv.devtype < I2C_RCAR_GEN3 THEN rcar_i2c_gen2_irq(c, e)
    ELSE rcar_i2c_gen3_irq(c, e)

(***************************************************************************)
(* Register initialization and the bus barrier                             *)
(***************************************************************************)
TCYC17 == 15

rcar_i2c_init(c) ==
    LET c1 == rcar_i2c_write(c, "ICMIER", {})
        c2 == rcar_i2c_write(c1, "ICMCR", {"MDBS"})
        c3 == rcar_i2c_write_icmsr(c2, {})
    IN  IF c.priv.devtype < I2C_RCAR_GEN3
        THEN rcar_i2c_write(c3, "ICCCR", c.priv.icccr)
        ELSE LET icccr2 == {"CDFD", "HLSE", "SME"} \cup
                           (IF "ID_P_FMPLUS" \in c.priv.flags THEN {"FMPE"} ELSE {})
                 d1 == rcar_i2c_write(c3, "ICCCR2", icccr2)
                 d2 == rcar_i2c_write(d1, "ICCCR", c.priv.icccr)
                 d3 == rcar_i2c_write(d2, "ICMPR", c.priv.smd)
                 d4 == rcar_i2c_write(d3, "ICHPR", c.priv.schd)
                 d5 == rcar_i2c_write(d4, "ICLPR", c.priv.scld)
             IN  rcar_i2c_write(d5, "ICFBSCR", TCYC17)

rcar_i2c_reset_slave(c) ==
    LET c1 == rcar_i2c_write(c, "ICSIER", {})
        c2 == rcar_i2c_write(c1, "ICSSR", {})
        c3 == rcar_i2c_write(c2, "ICSCR", {"SDBS"})
    IN  rcar_i2c_write(c3, "ICSAR", 0)   \* Gen2: must be 0 if not using slave

\* what the bus barrier finds: the bus free, the bus freed by the recovery,
\* or the bus stuck
BarrierOutcomes == {"free", "recovered", "stuck"}

\* rcar_i2c_bus_barrier(): [c, ret]
rcar_i2c_bus_barrier(c, b) ==
    IF b = "free" THEN [c |-> c, ret |-> OK]
    ELSE LET c1 == rcar_i2c_write(c, "ICMCR", {"MDBS", "OBPC", "FSDA", "FSCL"})
         IN  [c |-> c1, ret |-> IF b = "recovered" THEN OK ELSE EBUSY_BUS]

\* what the reset controller answers
ResetOutcomes == {"ok", "fail"}
EISCONN == "EISCONN"
EIO_RESET == "ERESET"

\* variant: the reset does not look at the responder registration
do_reset_ignores_slave(c, r) == IF r = "fail" THEN EIO_RESET ELSE OK

\* rcar_i2c_do_reset(): the return value
rcar_i2c_do_reset(c, r) ==
    IF c.priv.slave THEN EISCONN
    ELSE IF r = "fail" THEN EIO_RESET
    ELSE OK

\* pm_runtime_get_sync() and pm_runtime_put() on the controller's device,
\* called for who: a transfer or a responder registration
pm_runtime_get_sync(c, who) == [c EXCEPT !.obs.pm[who].get = @ + 1]
pm_runtime_put(c, who) == [c EXCEPT !.obs.pm[who].put = @ + 1]

\* the label out: of both transfer entry points
xfer_out(r) == [c |-> pm_runtime_put(r.c, "xfer"), ret |-> r.ret]

(***************************************************************************)
(* The responder registration API.  slave = [addr, ten] is the i2c_client: *)
(* its address and whether its flags have I2C_CLIENT_TEN.  priv.slave is   *)
(* priv->slave != NULL.                                                    *)
(***************************************************************************)
EBUSY == "EBUSY"
EAFNOSUPPORT == "EAFNOSUPPORT"

\* variant: an active registration is replaced
reg_slave_replaces(c, slave) ==
    IF slave.ten THEN [c |-> c, ret |-> EAFNOSUPPORT]
    ELSE LET c0 == pm_runtime_get_sync(c, "slave")
             c1 == rcar_i2c_write([c0 EXCEPT !.priv.slave = TRUE],
                                  "ICSAR", slave.addr)
         IN  [c |-> rcar_i2c_write(c1, "ICSCR", {"SIE", "SDBS"}), ret |-> OK]

\* rcar_reg_slave(): [c, ret]
rcar_reg_slave(c, slave) ==
    IF c.priv.slave THEN [c |-> c, ret |-> EBUSY]
    ELSE IF slave.ten THEN [c |-> c, ret |-> EAFNOSUPPORT]
    ELSE LET c0 == pm_runtime_get_sync(c, "slave")
             c1 == [c0 EXCEPT !.priv.slave = TRUE]
             c2 == rcar_i2c_write(c1, "ICSAR", slave.addr)
             c3 == rcar_i2c_write(c2, "ICSSR", {})
             c4 == rcar_i2c_write(c3, "ICSIER", {"SAR"})
         IN  [c |-> rcar_i2c_write(c4, "ICSCR", {"SIE", "SDBS"}), ret |-> OK]

\* rcar_unreg_slave(): [c, ret]; WARN_ON(!priv->slave) only logs
rcar_unreg_slave(c) ==
    LET c1 == rcar_i2c_reset_slave(c)
        c2 == [c1 EXCEPT !.priv.slave = FALSE]
    IN  [c |-> pm_runtime_put(c2, "slave"), ret |-> OK]

(***************************************************************************)
(* rcar_i2c_master_xfer(): up to the wait, and after it.                   *)
(* in = [bar, rst, dma]: the barrier's and the reset's outcome and whether *)
(* the DMA engine has channels to give.                                    *)
(***************************************************************************)
\* the loop over rcar_i2c_request_dma(): a channel not yet held is asked
\* for; got says whether the DMA engine gives it.  The channel of a
\* direction is only looked at by a message of that direction, which has
\* asked for it, so both directions are taken as asked for.
rcar_i2c_request_dma(c, got) ==
    [c EXCEPT !.priv.dma_tx = @ \/ got, !.priv.dma_rx = @ \/ got]

master_xfer_begin(c, msgs, num, in) ==
    LET c0 == pm_runtime_get_sync(
                  [c EXCEPT !.priv.flags = @ \cup {"ID_P_NOT_ATOMIC"}], "xfer")
        bar == rcar_i2c_bus_barrier(c0, in.bar)
        c1 == bar.c
        rst == IF c1.priv.devtype >= I2C_RCAR_GEN3
               THEN rcar_i2c_do_reset(c1, in.rst) ELSE OK
    IN  IF bar.ret # OK THEN xfer_out([c |-> c1, ret |-> Err(bar.ret)])
        ELSE IF rst # OK THEN xfer_out([c |-> c1, ret |-> Err(rst)])
        ELSE
          LET c2 == IF c1.priv.devtype >= I2C_RCAR_GEN3
                    THEN [c1 EXCEPT !.priv.flags = @ \ {"ID_P_NO_RXDMA"}]
                    ELSE c1
              c3 == rcar_i2c_init(c2)
              c4 == rcar_i2c_request_dma(c3, in.dma)
          IN  [c |-> rcar_i2c_first_msg(c4, msgs, num), ret |-> Pending]

\* the result from the flags, as both entry points compute it
xfer_result(c, timed_out, num) ==
    IF timed_out THEN [c |-> rcar_i2c_init(c), ret |-> Err(ETIMEDOUT)]
    ELSE IF "ID_NACK" \in c.priv.flags THEN [c |-> c, ret |-> Err(ENXIO)]
    ELSE IF "ID_ARBLOST" \in c.priv.flags THEN [c |-> c, ret |-> Err(EAGAIN)]
    ELSE IF "ID_EPROTO" \in c.priv.flags THEN [c |-> c, ret |-> Err(EPROTO)]
    ELSE [c |-> c, ret |-> Count(num - c.priv.msgs_left)]

\* variant: an offload still in flight is left alone
master_xfer_end_keeps_dma(c, timed_out, num) ==
    xfer_out(xfer_result(c, timed_out, num))

\* after wait_event_timeout(); time_left = 0 is timed_out
master_xfer_end(c, timed_out, num) ==
    LET c1 == IF c.priv.dma_direction # DMA_NONE
              THEN rcar_i2c_cleanup_dma(c, TRUE)
              ELSE c
    IN  xfer_out(xfer_result(c1, timed_out, num))

(***************************************************************************)
(* rcar_i2c_master_xfer_atomic(): up to the loop, and one iteration        *)
(***************************************************************************)
master_xfer_atomic_begin(c, msgs, num, in) ==
    LET c0 == pm_runtime_get_sync(
                  [c EXCEPT !.priv.flags = @ \ {"ID_P_NOT_ATOMIC"}], "xfer")
        bar == rcar_i2c_bus_barrier(c0, in.bar)
    IN  IF bar.ret # OK THEN xfer_out([c |-> bar.c, ret |-> Err(bar.ret)])
        ELSE [c |-> rcar_i2c_first_msg(rcar_i2c_init(bar.c), msgs, num),
              ret |-> Pending]

\* the body of the do-while loop
atomic_poll(c, e) ==
    LET msr == c.io.ICMSR \cap
               ((IF rcar_i2c_is_recv(c) THEN RCAR_IRQ_RECV ELSE RCAR_IRQ_SEND)
                \cup RCAR_IRQ_STOP)
    IN  IF msr # {} THEN irqhandler(c, e) ELSE c

(***************************************************************************)
(* State                                                                   *)
(***************************************************************************)
Cur == [priv |-> priv, io |-> io, obs |-> obs]

Commit(c) == priv' = c.priv /\ io' = c.io /\ obs' = c.obs

\* a driver entry begins: forget the last event's register writes and note
\* what the event found
Event(c, src, msr) ==
    [c EXCEPT !.obs.wr = <<>>, !.obs.sev = <<>>, !.obs.sirq = "none",
              !.obs.ev = [src |-> src, msr |-> msr, pos |-> c.priv.pos,
                          msgs_left |-> c.priv.msgs_left,
                          msg_idx |-> c.priv.msg_idx,
                          len |-> c.priv.msg.len, flags |-> c.priv.flags]]

NoEvent == [src |-> "none", msr |-> {}, pos |-> 0, msgs_left |-> 0,
            msg_idx |-> 0, len |-> 0, flags |-> {}]

(***************************************************************************)
(* The clock calculator.  The C variables are u32: a value is kept in      *)
(* 0 .. 2^32 - 1.  The only place where the code leaves that range is the  *)
(* subtraction of the fixed terms from the quotient, followed by the       *)
(* addition inside DIV_ROUND_UP; U32SubDivRoundUp computes both as the     *)
(* machine does, case by case, without writing 2^32.                       *)
(***************************************************************************)
I2C_MAX_STANDARD_MODE_FREQ == 100000
I2C_MAX_FAST_MODE_FREQ == 400000
RCAR_SCLD_RATIO == 5
RCAR_SCHD_RATIO == 4
RCAR_DEFAULT_SMD == 20
EINVAL == "EINVAL"

DIV_ROUND_UP(n, d) == (n + d - 1) \div d

DIV_ROUND_CLOSEST(x, d) == (x + d \div 2) \div d

\* 2^32 \div d and 2^32 % d
U32Quot(d) == 4 * (1073741824 \div d) + (4 * (1073741824 % d)) \div d
U32Rem(d) == (4 * (1073741824 % d)) % d

\* a subtraction that stops at 0 where the u32 one wraps
SaturatingSubDivRoundUp(a, s, d) ==
    [underflow |-> a < s,
     by |-> IF a < s THEN s - a ELSE 0,
     val |-> IF a < s THEN 0 ELSE (a - s + d - 1) \div d]

\* DIV_ROUND_UP(a - s, d) on u32, for 0 <= a, s < 2^31: whether a - s wraps
\* (and by how much), and the u32 value of ((a - s) + d - 1) / d
U32SubDivRoundUp(a, s, d) ==
    LET n == a - s + d - 1
    IN  [underflow |-> a < s,
         by |-> IF a < s THEN s - a ELSE 0,
         val |-> IF n >= 0
                 THEN n \div d                 \* no wrap, or a wrap undone by + d - 1
                 ELSE U32Quot(d) + (U32Rem(d) + n) \div d]

\* x * k > lim on u32, x * k < 2^32
U32MulExceeds(x, k, lim) == IF x > lim THEN TRUE ELSE x * k > lim

\* struct i2c_timings t after i2c_parse_fw_timings(dev, &t, false): a
\* property the firmware gives replaces the initializer's value
DefaultTimings ==
    [bus_freq_hz |-> I2C_MAX_STANDARD_MODE_FREQ, scl_fall_ns |-> 35,
     scl_rise_ns |-> 200, scl_int_delay_ns |-> 50]

\* p is priv, rate is clk_get_rate(priv->clk); the result is priv and the
\* return value, with the intermediate values the claims speak about
rcar_i2c_clock_calculate(p, rate, t) ==
    LET p0 == [p EXCEPT !.smd = RCAR_DEFAULT_SMD]
        cdf == rate \div 20000000
        cdf_width == IF p.devtype = I2C_RCAR_GEN1 THEN 2 ELSE 3
        p1 == [p0 EXCEPT !.flags =
                  IF t.bus_freq_hz > I2C_MAX_FAST_MODE_FREQ
                     /\ p.devtype >= I2C_RCAR_GEN4
                  THEN @ \cup {"ID_P_FMPLUS"} ELSE @ \ {"ID_P_FMPLUS"}]
        ick == rate \div (IF p.devtype < I2C_RCAR_GEN3 THEN cdf + 1 ELSE 1)
        sum == t.scl_fall_ns + t.scl_rise_ns + t.scl_int_delay_ns
        round0 == DIV_ROUND_CLOSEST(ick, 1000000)
        round == DIV_ROUND_CLOSEST(round0 * sum, 1000)
        freq == IF t.bus_freq_hz # 0 THEN t.bus_freq_hz ELSE 1
        none == [underflow |-> FALSE, by |-> 0, val |-> 0]
    IN  IF cdf >= 2 ^ cdf_width
        THEN [priv |-> p0, ret |-> EINVAL, ick |-> 0, round |-> 0, sub |-> none]
        ELSE IF p.devtype < I2C_RCAR_GEN3
        THEN LET q == DIV_ROUND_UP(ick, freq)
                 sub == U32SubDivRoundUp(q, 20 + round, 8)
                 scgd == sub.val
             IN  IF scgd > 63
                 THEN [priv |-> p1, ret |-> EINVAL, ick |-> ick,
                       round |-> round, sub |-> sub]
                 ELSE [priv |-> [p1 EXCEPT !.icccr = scgd * 2 ^ cdf_width + cdf],
                       ret |-> OK, ick |-> ick, round |-> round, sub |-> sub]
        ELSE LET sum_ratio == RCAR_SCHD_RATIO + RCAR_SCLD_RATIO
                 q == DIV_ROUND_UP(rate, freq)
                 sub == U32SubDivRoundUp(q, 8 + 2 * p0.smd + round, sum_ratio)
                 x == sub.val
             IN  IF x = 0 \/ U32MulExceeds(x, RCAR_SCLD_RATIO, 65535)
                 THEN [priv |-> p1, ret |-> EINVAL, ick |-> ick,
                       round |-> round, sub |-> sub]
                 ELSE LET schd == RCAR_SCHD_RATIO * x
                      IN  [priv |-> [p1 EXCEPT
                                       !.icccr = cdf,
                                       !.schd = schd,
                                       !.scld = RCAR_SCLD_RATIO * x,
                                       !.smd = IF @ >= schd THEN schd - 1 ELSE @],
                           ret |-> OK, ick |-> ick, round |-> round,
                           sub |-> sub]

Devtypes == {I2C_RCAR_GEN1, I2C_RCAR_GEN2, I2C_RCAR_GEN3, I2C_RCAR_GEN4}

\* priv after rcar_i2c_probe(): the flags the probe may leave set
ProbeFlags(devtype) ==
    {{"ID_P_PM_BLOCKED"} \cup
         (IF devtype < I2C_RCAR_GEN3 THEN {"ID_P_HOST_NOTIFY"} ELSE {})}

\* priv in rcar_i2c_probe() when the clock is about to be calculated
ZeroPriv(devtype) ==
    [flags |-> {}, msg |-> NoMsg, msg_idx |-> 0, msgs_left |-> 0, pos |-> 0,
     icccr |-> 0, schd |-> 0, scld |-> 0, smd |-> 0,
     devtype |-> devtype, slave |-> FALSE,
     slave_nack |-> FALSE,                   \* slave_flags & ID_SLAVE_NACK
     dma_tx |-> FALSE, dma_rx |-> FALSE,     \* ERR_PTR(-EPROBE_DEFER)
     sg_len |-> 0, sg_off |-> 0, dma_direction |-> DMA_NONE]

\* the clock of the board the transfers run on
TypicalBoard == [rate |-> 66666666, t |-> DefaultTimings]

\* priv after a successful rcar_i2c_probe(); the probe has run
\* rcar_i2c_init() on the registers
InitPriv(devtype, flags) ==
    LET r == rcar_i2c_clock_calculate(ZeroPriv(devtype), TypicalBoard.rate,
                                      TypicalBoard.t)
    IN  [r.priv EXCEPT !.flags = @ \cup flags]

InitIo ==
    [ICMCR |-> {"MDBS"}, ICMSR |-> {}, ICMIER |-> {}, ICMAR |-> 0,
     ICRXTX |-> 0, ICDMAER |-> {}, ICCCR |-> 0, ICCCR2 |-> {},
     ICMPR |-> 0, ICHPR |-> 0, ICLPR |-> 0, ICFBSCR |-> 0,
     ICSCR |-> {}, ICSSR |-> {}, ICSIER |-> {}, ICSAR |-> 0]

\* obs.pm: the calls of pm_runtime_get_sync() and pm_runtime_put() made for
\* a transfer and for a responder registration
NoPm == [xfer |-> [get |-> 0, put |-> 0], slave |-> [get |-> 0, put |-> 0]]

\* obs.sl: the last call of the responder registration API, its argument
\* and its return value, and the number of calls so far
NoSlaveCall == [calls |-> 0, op |-> "none", ten |-> FALSE, ret |-> OK]

\* obs.sev: the events the last handler run delivered to the responder
\* backend; obs.orphan: one was delivered with priv->slave NULL; obs.sirq:
\* what rcar_i2c_slave_irq() returned in the last handler run; hw.sev counts
\* the responder statuses the controller has raised
\* obs.dma is the last offload submitted
NoDma == [idx |-> 0, rd |-> FALSE, off |-> 0, len |-> 0, msglen |-> 0]

InitObs ==
    [wr |-> <<>>, tx |-> <<>>, oob |-> FALSE, pio |-> {}, inflight |-> FALSE,
     terminated |-> 0, mapped |-> 0, maps |-> 0, unmaps |-> 0, fails |-> 0,
     rx |-> 0, starts |-> 0, dma |-> NoDma,
     sev |-> <<>>, orphan |-> FALSE, sirq |-> "none",
     wakeups |-> 0, ev |-> NoEvent, pm |-> NoPm, sl |-> NoSlaveCall]

\* hw.count: the first byte the target sent in answer to the current
\* length-prefixed read, Untouched while it has sent none
InitHw == [bus |-> "idle", count |-> Untouched, nacked |-> FALSE, arb |-> FALSE,
           spur |-> 0, sev |-> 0]

InitThr == [pc |-> "idle", atomic |-> FALSE, num |-> 0, ret |-> Pending]

NoClk == [pc |-> "off"]

\* api: the caller of the responder registration API, statement by
\* statement: pc is where it stands, i the next register write, client the
\* i2c_client it passed, irq_off whether it has the interrupt disabled
NoClient == [addr |-> 0, ten |-> FALSE]
InitApi == [pc |-> "idle", i |-> 0, client |-> NoClient, irq_off |-> FALSE]
\* no invocation of the interrupt handler is in progress
InitIsr == [pc |-> "idle", msr |-> {}]

\* what earlier transfers leave in priv on an idle controller: the DMA
\* channels a blocking transfer got (they are kept until the driver is
\* removed) and, on Gen3 and later, ID_P_NO_RXDMA after a receive offload
Earlier(devtype) ==
    {h \in [dma : BOOLEAN, no_rxdma : BOOLEAN] :
        h.no_rxdma => h.dma /\ devtype >= I2C_RCAR_GEN3}

IdlePriv(devtype, flags, h) ==
    [InitPriv(devtype, flags) EXCEPT
        !.dma_tx = h.dma, !.dma_rx = h.dma,
        !.flags = @ \cup (IF h.no_rxdma THEN {"ID_P_NO_RXDMA"} ELSE {})]

Init ==
    /\ \E devtype \in Devtypes : \E f \in ProbeFlags(devtype) :
       \E h \in Earlier(devtype) :
          priv = IdlePriv(devtype, f, h)
    /\ io = rcar_i2c_reset_slave(
                rcar_i2c_init([priv |-> priv, io |-> InitIo, obs |-> InitObs])).io
    /\ obs = InitObs
    /\ hw = InitHw
    /\ thr = InitThr
    /\ clk = NoClk
    /\ api = InitApi
    /\ isr = InitIsr

(***************************************************************************)
(* The probe calculating the clock: the reference clock's rate and the     *)
(* timings the firmware gives are the inputs.                              *)
(***************************************************************************)
Rates == {8000000, 20000000, 24000000, 66666666, 100000000, 133333333,
          200000000}

Timings ==
    {[DefaultTimings EXCEPT !.bus_freq_hz = f, !.scl_rise_ns = r] :
        f \in {0, I2C_MAX_STANDARD_MODE_FREQ, I2C_MAX_FAST_MODE_FREQ, 1000000},
        r \in {20, 200}}

ClockInit ==
    /\ \E devtype \in Devtypes : priv = ZeroPriv(devtype)
    /\ io = InitIo
    /\ obs = InitObs
    /\ hw = InitHw
    /\ thr = InitThr
    /\ clk = [pc |-> "probe"]
    /\ api = InitApi
    /\ isr = InitIsr

ClockCalculate ==
    /\ clk.pc = "probe"
    /\ \E rate \in Rates : \E t \in Timings :
          LET r == rcar_i2c_clock_calculate(priv, rate, t)
          IN  /\ priv' = r.priv
              /\ clk' = [pc |-> "done", rate |-> rate, t |-> t, ret |-> r.ret,
                         ick |-> r.ick, round |-> r.round, sub |-> r.sub]
    /\ UNCHANGED <<io, obs, hw, thr, api, isr>>

ClockNext == ClockCalculate

ClockSpec == ClockInit /\ [][ClockNext]_vars

(***************************************************************************)
(* The caller's thread                                                     *)
(***************************************************************************)
XferInputs ==
    [bar : BarrierOutcomes, rst : ResetOutcomes, dma : BOOLEAN]

\* the inputs that make a difference to this entry
UsedXferInputs(atomic, devtype) ==
    {in \in XferInputs :
        /\ (atomic \/ devtype < I2C_RCAR_GEN3) => in.rst = "ok"
        /\ atomic => ~in.dma
        /\ in.bar = "stuck" => in.rst = "ok" /\ ~in.dma
        /\ in.rst = "fail" => ~in.dma}

Started(r, atomic, num) ==
    /\ Commit(r.c)
    /\ thr' = [pc |-> IF r.ret # Pending THEN "ret"
                      ELSE IF atomic THEN "poll" ELSE "wait",
               atomic |-> atomic, num |-> num, ret |-> r.ret]
    /\ hw' = IF r.ret = Pending THEN [InitHw EXCEPT !.bus = "addr"] ELSE hw
    /\ UNCHANGED <<clk, api, isr>>

\* rcar_i2c_master_xfer() is called and runs up to its wait
XferStart ==
    /\ thr.pc = "idle"
    /\ \E num \in 1..MaxMsgs : \E m \in Msgs :
       \E in \in UsedXferInputs(FALSE, priv.devtype) :
          Started(master_xfer_begin(Event(Cur, "xfer", {}), m, num, in),
                  FALSE, num)

\* rcar_i2c_master_xfer_atomic() is called and runs up to its loop
XferAtomicStart ==
    /\ thr.pc = "idle"
    /\ \E num \in 1..MaxMsgs : \E m \in Msgs :
       \E in \in UsedXferInputs(TRUE, priv.devtype) :
          Started(master_xfer_atomic_begin(Event(Cur, "xfer_atomic", {}),
                                           m, num, in),
                  TRUE, num)

Returned(r) ==
    /\ Commit(r.c)
    /\ thr' = [thr EXCEPT !.pc = "ret", !.ret = r.ret]
    /\ UNCHANGED <<hw, clk, api, isr>>

\* the clients a caller registers as responder
SlaveClients == {[addr |-> a, ten |-> t] : a \in {32, 33}, t \in BOOLEAN}

SlaveCalled(r, op, ten) ==
    /\ Commit([r.c EXCEPT !.obs.sl = [calls |-> @.calls + 1, op |-> op,
                                      ten |-> ten, ret |-> r.ret]])
    /\ UNCHANGED <<hw, thr, clk, api, isr>>

\* rcar_reg_slave() is called
RegSlave ==
    /\ obs.sl.calls < MaxSlaveCalls
    /\ \E slave \in SlaveClients :
          SlaveCalled(rcar_reg_slave(Event(Cur, "reg_slave", {}), slave),
                      "reg", slave.ten)

\* rcar_unreg_slave() is called
UnregSlave ==
    /\ obs.sl.calls < MaxSlaveCalls
    /\ SlaveCalled(rcar_unreg_slave(Event(Cur, "unreg_slave", {})),
                   "unreg", FALSE)

\* wait_event_timeout() returns because ID_DONE is set
XferWake ==
    /\ thr.pc = "wait"
    /\ "ID_DONE" \in priv.flags
    /\ Returned(master_xfer_end(Event(Cur, "wake", {}), FALSE, thr.num))

\* wait_event_timeout() returns 0: the time is up and ID_DONE is not set
XferTimeout ==
    /\ thr.pc = "wait"
    /\ "ID_DONE" \notin priv.flags
    /\ Returned(master_xfer_end(Event(Cur, "timeout", {}), TRUE, thr.num))

\* the inputs an event can consume: the next message if the handler moves
\* on to it, the DMA engine's answer if the handler asks for an offload
EventInputs(c) ==
    LET base == irqhandler(c, [next |-> NoMsg, dma |-> "map_err", sl |-> FALSE])
        moves == base.priv.msg_idx # c.priv.msg_idx
        asks == base # irqhandler(c, [next |-> NoMsg, dma |-> "ok", sl |-> FALSE])
        backend == base # irqhandler(c, [next |-> NoMsg, dma |-> "map_err",
                                         sl |-> TRUE])
    IN  {[next |-> n, dma |-> d, sl |-> b] :
            n \in (IF moves THEN Msgs ELSE {NoMsg}),
            d \in (IF asks THEN DmaOutcomes ELSE {"map_err"}),
            b \in (IF backend THEN BOOLEAN ELSE {FALSE})}

\* one iteration of the polling loop of rcar_i2c_master_xfer_atomic(), and
\* what follows the loop when it ends
AtomicPoll ==
    /\ thr.pc = "poll"
    /\ \E time_left \in BOOLEAN :
       LET c0 == Event(Cur, "poll", io.ICMSR)
       IN  \E e \in EventInputs(c0) :
           LET c1 == atomic_poll(c0, e)
           IN  IF "ID_DONE" \notin c1.priv.flags /\ time_left
               THEN Commit(c1) /\ UNCHANGED <<hw, thr, clk, api, isr>>
               ELSE Returned(xfer_out(xfer_result(c1, ~time_left, thr.num)))

(***************************************************************************)
(* The interrupt                                                           *)
(***************************************************************************)
\* a data status the DMA engine serves raises no interrupt
DmaServed(c) ==
    (IF "TMDMAE" \in c.io.ICDMAER THEN {"MDE"} ELSE {}) \cup
    (IF "RMDMAE" \in c.io.ICDMAER THEN {"MDR"} ELSE {})

IrqPending(c) == ((c.io.ICMSR \cap c.io.ICMIER) \ DmaServed(c)) # {}

Irq ==
    /\ thr.pc = "wait" /\ ~api.irq_off /\ isr.pc = "idle"
    /\ IrqPending(Cur)
    /\ LET c0 == Event(Cur, "irq", ReadMsr(Cur))
       IN  \E e \in EventInputs(c0) : Commit(irqhandler(c0, e))
    /\ UNCHANGED <<hw, thr, clk, api, isr>>

(***************************************************************************)
(* The controller hardware and the target on the bus.                      *)
(*                                                                         *)
(* hw.bus is what the controller does on the bus: "idle", "addr" (start    *)
(* condition and address byte), "tx" / "rx" (data bytes), "stop" (stop     *)
(* condition after the byte just received), "nack" (the automatic stop     *)
(* after a NACK).  The controller holds the bus while a data status it     *)
(* raised is not cleared, and reads ICMCR when a byte is through.  While a *)
(* DMA enable bit is set the DMA engine serves the data status: no data    *)
(* event reaches the handler.  A target answers a length-prefixed read     *)
(* with a count first.                                                     *)
(***************************************************************************)
Active == thr.pc \in {"wait", "poll"} /\ "MIE" \in io.ICMCR

DataStatus == {"MAT", "MDE", "MDR"}

Held == io.ICMSR \cap DataStatus # {}

Raise(bits) == io' = [io EXCEPT !.ICMSR = @ \cup bits]

\* the count bytes a target may answer with
LenBytes == {0, 1, RCAR_MIN_DMA_LEN - 1, I2C_SMBUS_BLOCK_MAX + 1}

\* a byte a target sends after the count, or in a plain read
RxData == 10 * 16 + 5    \* 0xa5

RxBytes == IF priv.msg.recv_len /\ hw.count = Untouched THEN LenBytes
           ELSE {RxData}

Counted(b) == IF priv.msg.recv_len /\ hw.count = Untouched THEN b
              ELSE hw.count

HwIsRead == io.ICMAR % 2 = 1

\* the address goes out and the target acknowledges it
HwAddressAck ==
    /\ Active /\ hw.bus = "addr" /\ ~Held
    /\ Raise({"MAT", IF HwIsRead THEN "MDR" ELSE "MDE"})
    /\ hw' = [hw EXCEPT !.bus = IF HwIsRead THEN "rx" ELSE "tx",
                        !.count = Untouched]
    /\ UNCHANGED <<priv, obs, thr, clk, api, isr>>

\* the address, or a byte sent, is not acknowledged
HwNack ==
    /\ Active /\ ~Held
    /\ hw.bus \in {"addr", "tx"}
    /\ hw.bus = "tx" => obs.tx # <<>>
    /\ Raise({"MNR"})
    /\ hw' = [hw EXCEPT !.bus = "nack", !.nacked = TRUE]
    /\ UNCHANGED <<priv, obs, thr, clk, api, isr>>

\* HW automatically sends STOP after received NACK
HwNackStop ==
    /\ Active /\ hw.bus = "nack"
    /\ Raise({"MST"})
    /\ hw' = [hw EXCEPT !.bus = "idle"]
    /\ UNCHANGED <<priv, obs, thr, clk, api, isr>>

\* a byte has been sent and acknowledged: repeated start, stop, or the data
\* register is empty again
HwTxStep ==
    /\ Active /\ hw.bus = "tx" /\ ~Held /\ io.ICDMAER = {}
    /\ IF "ESG" \in io.ICMCR
       THEN hw' = [hw EXCEPT !.bus = "addr"] /\ io' = io
       ELSE IF "FSB" \in io.ICMCR
       THEN hw' = [hw EXCEPT !.bus = "idle"] /\ Raise({"MST"})
       ELSE hw' = hw /\ Raise({"MDE"})
    /\ UNCHANGED <<priv, obs, thr, clk, api, isr>>

\* a byte has been received
HwRxStep ==
    /\ Active /\ hw.bus = "rx" /\ ~Held /\ io.ICDMAER = {}
    /\ \E b \in RxBytes :
          /\ io' = [io EXCEPT !.ICMSR = @ \cup {"MDR"}, !.ICRXTX = b]
          /\ hw' = [hw EXCEPT !.count = Counted(b),
                              !.bus = IF "ESG" \in io.ICMCR THEN "addr"
                                      ELSE IF "FSB" \in io.ICMCR THEN "stop"
                                      ELSE "rx"]
    /\ UNCHANGED <<priv, obs, thr, clk, api, isr>>

\* the stop condition after the last byte received
HwStop ==
    /\ Active /\ hw.bus = "stop" /\ ~Held
    /\ Raise({"MST"})
    /\ hw' = [hw EXCEPT !.bus = "idle"]
    /\ UNCHANGED <<priv, obs, thr, clk, api, isr>>

\* another master wins the bus
HwArbLost ==
    /\ Active /\ hw.bus \in {"addr", "tx", "rx"}
    /\ Raise({"MAL"})
    /\ hw' = [hw EXCEPT !.bus = "idle", !.arb = TRUE]
    /\ UNCHANGED <<priv, obs, thr, clk, api, isr>>

\* a late data status nothing on the bus accounts for, after the last byte
\* of the message went through the data port
HwSpurious ==
    /\ Active /\ hw.spur < MaxSpurious /\ io.ICDMAER = {}
    /\ priv.pos = priv.msg.len
    /\ LET b == IF priv.msg.rd THEN "MDR" ELSE "MDE"
       IN  b \notin io.ICMSR /\ Raise({b})
    /\ hw' = [hw EXCEPT !.spur = @ + 1]
    /\ UNCHANGED <<priv, obs, thr, clk, api, isr>>

\* the DMA engine has moved the whole mapped range (a transmit puts the
\* bytes on the data port, a receive stores the bytes of the target, b
\* being the first of them) and runs the completion callback
DmaMoved(c, b) ==
    LET off == c.priv.sg_off
        n == c.priv.sg_len
    IN  IF c.priv.dma_direction = DMA_TO_DEVICE
        THEN [c EXCEPT !.obs.tx = @ \o [i \in 1..n |->
                                          c.priv.msg.buf[off + i - 1]],
                       !.io.ICMSR = @ \ {"MDE"}]
        ELSE [c EXCEPT !.priv.msg.buf =
                          [i \in DOMAIN @ |->
                              IF i = off THEN b
                              ELSE IF i > off /\ i < off + n THEN RxData
                              ELSE @[i]],
                       !.io.ICMSR = @ \ {"MDR"}]

DmaComplete ==
    /\ Active /\ obs.inflight
    /\ hw.bus = (IF priv.dma_direction = DMA_TO_DEVICE THEN "tx" ELSE "rx")
    /\ \E b \in (IF priv.dma_direction = DMA_FROM_DEVICE THEN RxBytes
                  ELSE {RxData}) :
       LET c0 == DmaMoved(Event(Cur, "dma", {}), b)
       IN  /\ Commit(rcar_i2c_dma_callback(
                         [c0 EXCEPT !.obs.inflight = obs.mapped > 1]))
           /\ hw' = [hw EXCEPT !.count =
                        IF priv.dma_direction = DMA_FROM_DEVICE
                        THEN Counted(b) ELSE @]
    /\ UNCHANGED <<thr, clk, api, isr>>

Next ==
    \/ XferStart
    \/ XferAtomicStart
    \/ XferWake
    \/ XferTimeout
    \/ AtomicPoll
    \/ Irq
    \/ DmaComplete
    \/ HwAddressAck
    \/ HwNack
    \/ HwNackStop
    \/ HwTxStep
    \/ HwRxStep
    \/ HwStop
    \/ HwArbLost
    \/ HwSpurious

Spec == Init /\ [][Next]_vars

(***************************************************************************)
(* The transmit data status the handler leaves set when it hands a message *)
(* to DMA stays enabled in ICMIER.  In Spec the DMA engine serves it before *)
(* the interrupt is taken again; here the interrupt may be taken first,    *)
(* while the offload is in flight and pos is still 1.                      *)
(***************************************************************************)
IrqDuringDma ==
    /\ thr.pc = "wait" /\ hw.spur < MaxSpurious
    /\ obs.inflight /\ priv.dma_direction = DMA_TO_DEVICE
    /\ "TMDMAE" \in io.ICDMAER
    /\ "MDE" \in io.ICMSR \cap io.ICMIER
    /\ LET c0 == Event(Cur, "irq", ReadMsr(Cur))
       IN  \E e \in EventInputs(c0) : Commit(irqhandler(c0, e))
    /\ hw' = [hw EXCEPT !.spur = @ + 1]
    /\ UNCHANGED <<thr, clk, api, isr>>

LateIrqNext ==
    \/ Next
    \/ IrqDuringDma

LateIrqSpec == Init /\ [][LateIrqNext]_vars

(***************************************************************************)
(* A transfer that ends between the receive handler's write of the start   *)
(* phase and the preparation of the next message (a timeout, an            *)
(* arbitration loss) returns with ID_REP_AFTER_RD in priv->flags: no entry *)
(* point clears the transient flags.  Here the controller may start from   *)
(* what such a transfer leaves.                                            *)
(***************************************************************************)
AfterBrokenRead(p) == [p EXCEPT !.flags = @ \cup {"ID_REP_AFTER_RD"}]

ResidueInit ==
    /\ \E devtype \in Devtypes : \E f \in ProbeFlags(devtype) :
       \E h \in Earlier(devtype) : \E broken \in BOOLEAN :
          priv = IF broken THEN AfterBrokenRead(IdlePriv(devtype, f, h))
                 ELSE IdlePriv(devtype, f, h)
    /\ io = rcar_i2c_reset_slave(
                rcar_i2c_init([priv |-> priv, io |-> InitIo, obs |-> InitObs])).io
    /\ obs = InitObs
    /\ hw = InitHw
    /\ thr = InitThr
    /\ clk = NoClk
    /\ api = InitApi
    /\ isr = InitIsr

ResidueSpec == ResidueInit /\ [][Next]_vars

(***************************************************************************)
(* rcar_i2c_master_xfer() after wait_event_timeout(), one statement at a   *)
(* time: the test of priv->dma_direction and the call of                   *)
(* rcar_i2c_cleanup_dma() are two steps, and the DMA engine may run the    *)
(* completion callback between them.  No lock orders the two.              *)
(***************************************************************************)
\* line 944: the waiter has read priv->dma_direction # DMA_NONE
XferCleanupTest ==
    /\ thr.pc = "wait"
    /\ priv.dma_direction # DMA_NONE
    /\ thr' = [thr EXCEPT !.pc = IF "ID_DONE" \in priv.flags
                                 THEN "cleanup_woken" ELSE "cleanup_timeout"]
    /\ UNCHANGED <<priv, io, obs, hw, clk, api, isr>>

\* the offload completes while the waiter is between the test and the call
DmaCompleteRacing ==
    /\ thr.pc \in {"cleanup_woken", "cleanup_timeout"}
    /\ obs.inflight /\ priv.dma_direction # DMA_NONE
    /\ hw.bus = (IF priv.dma_direction = DMA_TO_DEVICE THEN "tx" ELSE "rx")
    /\ \E b \in (IF priv.dma_direction = DMA_FROM_DEVICE THEN RxBytes
                  ELSE {RxData}) :
          Commit(rcar_i2c_dma_callback(
                     [DmaMoved(Event(Cur, "dma", {}), b)
                         EXCEPT !.obs.inflight = FALSE]))
    /\ UNCHANGED <<hw, thr, clk, api, isr>>

\* line 945 and the rest of the function
XferCleanupCall ==
    /\ thr.pc \in {"cleanup_woken", "cleanup_timeout"}
    /\ LET timed_out == thr.pc = "cleanup_timeout"
           c0 == Event(Cur, IF timed_out THEN "timeout" ELSE "wake", {})
       IN  Returned(xfer_out(xfer_result(rcar_i2c_cleanup_dma(c0, TRUE),
                                         timed_out, thr.num)))

CleanupRaceNext ==
    \/ Next
    \/ XferCleanupTest
    \/ DmaCompleteRacing
    \/ XferCleanupCall

CleanupRaceSpec == Init /\ [][CleanupRaceNext]_vars

(***************************************************************************)
(* The interrupt handler in two steps: the entry, which reads ICMSR (and   *)
(* ICMIER), and rcar_i2c_irq() with the value read.  The waiter may time   *)
(* out between the two (another CPU): rcar_i2c_master_xfer() neither       *)
(* disables nor waits for the interrupt before it returns.                 *)
(***************************************************************************)
\* rcar_i2c_gen2_irq() / rcar_i2c_gen3_irq() up to the read of msr
irq_entry(c) ==
    IF c.priv.devtype < I2C_RCAR_GEN3
    THEN LET c1 == IF "ID_REP_AFTER_RD" \notin c.priv.flags
                   THEN rcar_i2c_write(c, "ICMCR", RCAR_BUS_PHASE_DATA)
                   ELSE c
         IN  [c |-> c1, msr |-> ReadMsr(c1)]
    ELSE [c |-> c, msr |-> ReadMsr(c)]

\* the rest of the handler, msr having been read earlier
irq_body(c, msr, e) ==
    IF c.priv.devtype < I2C_RCAR_GEN3 THEN rcar_i2c_irq(c, msr, e)
    ELSE rcar_i2c_irq(IF "ID_REP_AFTER_RD" \notin c.priv.flags /\ msr # {}
                      THEN rcar_i2c_write(c, "ICMCR", RCAR_BUS_PHASE_DATA)
                      ELSE c,
                      msr, e)

\* the inputs the rest of the handler can consume
BodyInputs(c, msr) ==
    LET base == irq_body(c, msr, [next |-> NoMsg, dma |-> "map_err",
                                  sl |-> FALSE])
        moves == base.priv.msg_idx # c.priv.msg_idx
        asks == base # irq_body(c, msr, [next |-> NoMsg, dma |-> "ok",
                                         sl |-> FALSE])
    IN  {[next |-> n, dma |-> d, sl |-> FALSE] :
            n \in (IF moves THEN Msgs ELSE {NoMsg}),
            d \in (IF asks THEN DmaOutcomes ELSE {"map_err"})}

IrqEnter ==
    /\ thr.pc = "wait" /\ ~api.irq_off /\ isr.pc = "idle"
    /\ IrqPending(Cur)
    /\ LET r == irq_entry(Event(Cur, "irq", ReadMsr(Cur)))
       IN  Commit(r.c) /\ isr' = [pc |-> "run", msr |-> r.msr]
    /\ UNCHANGED <<hw, thr, clk, api>>

IrqBody ==
    /\ isr.pc = "run"
    /\ \E e \in BodyInputs(Cur, isr.msr) : Commit(irq_body(Cur, isr.msr, e))
    /\ isr' = InitIsr
    /\ UNCHANGED <<hw, thr, clk, api>>

LateBodyNext ==
    \/ Next
    \/ IrqEnter
    \/ IrqBody

LateBodySpec == Init /\ [][LateBodyNext]_vars

(***************************************************************************)
(* The entries a caller makes on an idle controller: the responder         *)
(* registration API and the start of a transfer.                           *)
(***************************************************************************)
SlaveNext ==
    \/ RegSlave
    \/ UnregSlave
    \/ XferStart
    \/ XferAtomicStart

SlaveSpec == Init /\ [][SlaveNext]_vars

(***************************************************************************)
(* The responder registration API statement by statement, with the         *)
(* interrupt handler and the controller's responder side in between.       *)
(* A master talks to the registered address; the controller raises         *)
(* responder statuses while SIE is set in ICSCR.                           *)
(***************************************************************************)
\* the register writes of rcar_reg_slave() and of rcar_i2c_reset_slave()
RegWrites(slave) ==
    <<<<"ICSAR", slave.addr>>, <<"ICSSR", {}>>, <<"ICSIER", {"SAR"}>>,
      <<"ICSCR", {"SIE", "SDBS"}>>>>
ResetWrites ==
    <<<<"ICSIER", {}>>, <<"ICSSR", {}>>, <<"ICSCR", {"SDBS"}>>, <<"ICSAR", 0>>>>

ApiReturn(c, op, ten, ret) ==
    /\ Commit([c EXCEPT !.obs.sl = [calls |-> @.calls + 1, op |-> op,
                                    ten |-> ten, ret |-> ret]])
    /\ api' = InitApi

\* rcar_reg_slave() is called: the checks, pm_runtime_get_sync() and
\* priv->slave = slave
RegEnter ==
    /\ api.pc = "idle" /\ obs.sl.calls < MaxSlaveCalls
    /\ \E slave \in SlaveClients :
         LET c0 == Event(Cur, "reg_slave", {})
         IN  IF priv.slave THEN ApiReturn(c0, "reg", slave.ten, EBUSY)
             ELSE IF slave.ten THEN ApiReturn(c0, "reg", slave.ten, EAFNOSUPPORT)
             ELSE /\ Commit([pm_runtime_get_sync(c0, "slave")
                               EXCEPT !.priv.slave = TRUE])
                  /\ api' = [pc |-> "reg", i |-> 1, client |-> slave,
                             irq_off |-> FALSE]
    /\ UNCHANGED <<hw, thr, clk, isr>>

\* the next register write of rcar_reg_slave(); after the last it returns 0
RegWrite ==
    /\ api.pc = "reg"
    /\ LET w == RegWrites(api.client)[api.i]
           c1 == rcar_i2c_write(Event(Cur, "reg_slave", {}), w[1], w[2])
       IN  IF api.i < Len(RegWrites(api.client))
           THEN Commit(c1) /\ api' = [api EXCEPT !.i = @ + 1]
           ELSE ApiReturn(c1, "reg", FALSE, OK)
    /\ UNCHANGED <<hw, thr, clk, isr>>

\* rcar_unreg_slave() is called: WARN_ON() and disable_irq()
UnregEnter ==
    /\ api.pc = "idle" /\ obs.sl.calls < MaxSlaveCalls
    /\ Commit(Event(Cur, "unreg_slave", {}))
    /\ api' = [pc |-> "unreg", i |-> 1, client |-> NoClient, irq_off |-> TRUE]
    /\ UNCHANGED <<hw, thr, clk, isr>>

\* the next register write of rcar_i2c_reset_slave(); after the last,
\* enable_irq()
UnregWrite ==
    /\ api.pc = "unreg"
    /\ LET w == ResetWrites[api.i]
       IN  Commit(rcar_i2c_write(Event(Cur, "unreg_slave", {}), w[1], w[2]))
    /\ api' = IF api.i < Len(ResetWrites) THEN [api EXCEPT !.i = @ + 1]
              ELSE [api EXCEPT !.pc = "unreg_clear", !.irq_off = FALSE]
    /\ UNCHANGED <<hw, thr, clk, isr>>

\* priv->slave = NULL, pm_runtime_put(), return 0
UnregClear ==
    /\ api.pc = "unreg_clear"
    /\ LET c0 == Event(Cur, "unreg_slave", {})
       IN  ApiReturn(pm_runtime_put([c0 EXCEPT !.priv.slave = FALSE], "slave"),
                     "unreg", FALSE, OK)
    /\ UNCHANGED <<hw, thr, clk, isr>>

\* what the controller raises as responder: its address received for a
\* write or for a read, a stop, a byte received, the data register empty
SlaveStatuses == {{"SAR"}, {"SAR", "STM"}, {"SSR"}, {"SDR"}, {"SDE"}}

HwSlaveEvent ==
    /\ "SIE" \in io.ICSCR /\ hw.sev < MaxSlaveEvents
    /\ \E bits \in SlaveStatuses :
         /\ ~(bits \subseteq io.ICSSR)
         /\ io' = [io EXCEPT !.ICSSR = @ \cup bits]
    /\ hw' = [hw EXCEPT !.sev = @ + 1]
    /\ UNCHANGED <<priv, obs, thr, clk, api, isr>>

\* the interrupt handler runs for an enabled responder status, or with
\* nothing of this controller pending (spurious)
SlaveIrq ==
    /\ ~api.irq_off /\ thr.pc \in {"idle", "wait", "ret"}
    /\ \E spurious \in BOOLEAN :
         /\ IF spurious
            THEN /\ io.ICSSR \cap io.ICSIER = {} /\ ~IrqPending(Cur)
                 /\ hw.spur < MaxSpurious
            ELSE io.ICSSR \cap io.ICSIER # {}
         /\ hw' = [hw EXCEPT !.spur = @ + (IF spurious THEN 1 ELSE 0)]
    /\ LET c0 == Event(Cur, "irq", ReadMsr(Cur))
       IN  \E e \in EventInputs(c0) : Commit(irqhandler(c0, e))
    /\ UNCHANGED <<thr, clk, api, isr>>

\* rcar_i2c_master_xfer() is called with one message of one byte and runs
\* up to its wait
XferStartShort ==
    /\ thr.pc = "idle"
    /\ \E rd \in BOOLEAN :
         LET r == master_xfer_begin(Event(Cur, "xfer", {}),
                                    NewMsg(rd, 1, FALSE, FALSE), 1,
                                    [bar |-> "free", rst |-> "ok", dma |-> FALSE])
         IN  /\ Commit(r.c)
             /\ thr' = [pc |-> IF r.ret # Pending THEN "ret" ELSE "wait",
                        atomic |-> FALSE, num |-> 1, ret |-> r.ret]
             /\ hw' = IF r.ret = Pending THEN [hw EXCEPT !.bus = "addr"] ELSE hw
    /\ UNCHANGED <<clk, api, isr>>

SlaveIrqNext ==
    \/ RegEnter
    \/ RegWrite
    \/ UnregEnter
    \/ UnregWrite
    \/ UnregClear
    \/ HwSlaveEvent
    \/ SlaveIrq
    \/ XferStartShort
    \/ HwAddressAck
    \/ Irq

\* the controller after the probe: no transfer has asked for a DMA channel
SlaveIrqInit ==
    /\ \E devtype \in Devtypes : \E f \in ProbeFlags(devtype) :
          priv = InitPriv(devtype, f)
    /\ io = rcar_i2c_reset_slave(
                rcar_i2c_init([priv |-> priv, io |-> InitIo, obs |-> InitObs])).io
    /\ obs = InitObs
    /\ hw = InitHw
    /\ thr = InitThr
    /\ clk = NoClk
    /\ api = InitApi
    /\ isr = InitIsr

SlaveIrqSpec == SlaveIrqInit /\ [][SlaveIrqNext]_vars

(***************************************************************************)
(* Properties of the clock calculator (specification ClockSpec)            *)
(***************************************************************************)
ClockDone == clk.pc = "done"
ClockStored == ClockDone /\ clk.ret = OK
Legacy == priv.devtype < I2C_RCAR_GEN3

CdfWidth == IF priv.devtype = I2C_RCAR_GEN1 THEN 2 ELSE 3
StoredCdf == IF Legacy THEN priv.icccr % (2 ^ CdfWidth) ELSE priv.icccr
StoredScgd == priv.icccr \div (2 ^ CdfWidth)

\* the divider of the hardware formula with the stored values
StoredDivider ==
    IF Legacy THEN 20 + 8 * StoredScgd + clk.round
    ELSE 8 + 2 * priv.smd + priv.scld + priv.schd + clk.round

\* the clock the divider divides: ick = clkp / (1 + CDF), or clkp
DividedClock == IF Legacy THEN clk.rate \div (StoredCdf + 1) ELSE clk.rate

\* clock / divider <= freq, on the exact quotient
AtOrBelow(clock, divider, freq) == (clock + divider - 1) \div divider <= freq

\* C8: whenever the clock calculator succeeds, the bus frequency the
\* hardware formula gives for the stored values (legacy: ick / (20 + 8 *
\* SCGD + correction); modern: rate / (8 + 2 * SMD + SCLD + SCHD +
\* correction) with the stored, possibly clamped SMD) is at or below the
\* requested bus frequency.
C8_ActualAtOrBelowRequested ==
    ClockStored => AtOrBelow(DividedClock, StoredDivider, clk.t.bus_freq_hz)

\* the stored values fit their register fields
FieldsFit ==
    /\ clk.rate \div 20000000 < 2 ^ CdfWidth
    /\ StoredCdf = clk.rate \div 20000000
    /\ IF Legacy
       THEN StoredScgd <= 63
       ELSE /\ 1 <= priv.schd /\ priv.schd <= priv.scld /\ priv.scld <= 65535
            /\ priv.smd < priv.schd

\* C9 as stated: the clock calculator either fails with the range error or
\* stores values that fit their fields, and whenever the 32-bit subtraction
\* of the fixed terms and the correction from the rounded-up quotient
\* underflows the result is the range error.
C9_UnderflowAlwaysRangeError ==
    ClockDone => /\ clk.ret = EINVAL \/ (clk.ret = OK /\ FieldsFit)
                 /\ clk.sub.underflow => clk.ret = EINVAL

\* C9 amended: the clock calculator either fails with the range error or
\* stores values that fit their fields; an underflow of the 32-bit
\* subtraction gives the range error, except on the legacy family when it
\* underflows by 1 to 7: the addition inside the rounding division wraps
\* back, SCGD = 0 is stored, and the bus frequency of the stored values is
\* still at or below the requested one.
C9_FieldsFitOrRangeError ==
    ClockDone =>
      /\ clk.ret = EINVAL \/ (clk.ret = OK /\ FieldsFit)
      /\ clk.sub.underflow =>
            \/ clk.ret = EINVAL
            \/ /\ Legacy /\ clk.sub.by <= 7 /\ StoredScgd = 0
               /\ AtOrBelow(DividedClock, StoredDivider, clk.t.bus_freq_hz)
      /\ clk.sub.underflow /\ (~Legacy \/ clk.sub.by >= 8) => clk.ret = EINVAL

\* the subtraction underflowed far enough and the range error came out
C9_Witness == ClockDone /\ clk.sub.underflow /\ clk.sub.by >= 8 /\ clk.ret = EINVAL

(***************************************************************************)
(* Properties of the transfer state machine (specification Spec)           *)
(***************************************************************************)
\* the last driver entry wrote val to reg
Wrote(reg, val) == \E i \in 1..Len(obs.wr) : obs.wr[i] = <<reg, val>>
WroteTo(reg) == \E i \in 1..Len(obs.wr) : obs.wr[i][1] = reg

InTransfer == thr.pc \in {"wait", "poll"}
HasReturned == thr.pc = "ret"
Handled == obs.ev.src \in {"irq", "poll"}

\* the target acknowledges everything and nothing else disturbs the bus
QuietBus == ~hw.nacked /\ ~hw.arb /\ hw.spur = 0

\* the bytes of a transmit buffer, in index order
WholeBuffer(n) == [i \in 1..n |-> TxByte(i - 1)]
IsPrefix(s1, s2) ==
    Len(s1) <= Len(s2) /\ \A i \in 1..Len(s1) : s1[i] = s2[i]

\* a blocking transfer of one write message that no DMA offload was tried on
C1_Case ==
    /\ thr.pc \in {"wait", "ret"} /\ ~thr.atomic /\ thr.num = 1
    /\ priv.msg_idx = 1 /\ ~priv.msg.rd
    /\ QuietBus /\ obs.maps = 0

\* C1: in a blocking transfer of one write message of n >= 1 bytes to an
\* acknowledging target, byte-wise, the data port gets buf[0..n-1] in index
\* order, each byte once; the stop phase is written to ICMCR only after the
\* last byte was written; the stop status makes the handler set ID_DONE
\* with no message left, and the submit woken by it returns 1 with all n
\* bytes written.
C1_SingleWriteInOrder ==
    C1_Case =>
      /\ IsPrefix(obs.tx, WholeBuffer(priv.msg.len))
      /\ Len(obs.tx) = priv.pos
      /\ Wrote("ICMCR", RCAR_BUS_PHASE_STOP) => Len(obs.tx) = priv.msg.len
      /\ "FSB" \in io.ICMCR => Len(obs.tx) = priv.msg.len
      /\ obs.ev.src = "irq" /\ "MST" \in obs.ev.msr =>
            "ID_DONE" \in priv.flags /\ priv.msgs_left = 0
      /\ HasReturned /\ obs.ev.src = "wake" =>
            thr.ret = Count(1) /\ obs.tx = WholeBuffer(priv.msg.len)

\* a two-byte message went out byte by byte and the submit returned 1
C1_Witness ==
    /\ C1_Case /\ HasReturned /\ thr.ret = Count(1)
    /\ priv.msg.len = 2 /\ obs.tx = <<TxByte(0), TxByte(1)>>

\* a transfer of two or more messages to a target that acknowledges, with
\* no other master on the bus; the first message has been prepared
C2_Case ==
    /\ thr.num >= 2 /\ priv.msg_idx >= 1
    /\ InTransfer \/ HasReturned
    /\ ~hw.nacked /\ ~hw.arb

\* C2: for a batch of k >= 2 messages to an acknowledging target, the
\* messages become current in submitted order, one at a time; the stop
\* phase is written to ICMCR, and a stop condition is put on the bus, only
\* while the last message is current; every change of the current message
\* is made with the start phase in ICMCR (written in that event, or before
\* the last byte of a read) and without a stop; a submit that returns a
\* count returns k.
C2_InOrderRepeatedStart ==
    C2_Case =>
      /\ priv.msg_idx <= thr.num
      /\ "ID_DONE" \notin priv.flags =>
            priv.msg_idx = thr.num - priv.msgs_left + 1
      /\ Handled => priv.msg_idx \in {obs.ev.msg_idx, obs.ev.msg_idx + 1}
      /\ Wrote("ICMCR", RCAR_BUS_PHASE_STOP) =>
            priv.msg_idx = thr.num /\ "ID_LAST_MSG" \in priv.flags
      /\ "FSB" \in io.ICMCR \/ "MST" \in io.ICMSR \/ hw.bus = "stop" =>
            priv.msg_idx = thr.num
      /\ Handled /\ priv.msg_idx # obs.ev.msg_idx =>
            /\ Wrote("ICMCR", RCAR_BUS_PHASE_START)
                  \/ "ID_REP_AFTER_RD" \in obs.ev.flags
            /\ InTransfer => "ESG" \in io.ICMCR \/ hw.bus = "addr"
            /\ ~Wrote("ICMCR", RCAR_BUS_PHASE_STOP)
      /\ HasReturned /\ thr.ret.err = OK => thr.ret.count = thr.num

\* a write followed by a read: the second message became current by a
\* repeated start and the submit returned 2
C2_Witness ==
    /\ C2_Case /\ HasReturned /\ thr.ret = Count(2)
    /\ priv.msg_idx = 2 /\ priv.msg.rd /\ priv.msg.len = 2
    /\ obs.pio = {0, 1}

\* the interrupt handler ran on a NACK status (arbitration lost goes first)
NackEvent ==
    obs.ev.src = "irq" /\ "MNR" \in obs.ev.msr /\ "MAL" \notin obs.ev.msr

\* C3: in a blocking transfer, the event that carries the NACK status sets
\* ID_NACK and narrows ICMIER to the stop status; from that event on no
\* driver entry writes the stop phase to ICMCR and no stop request is left
\* in it; no later event carries a data status or moves the position; the
\* event of the automatic stop sets ID_DONE, and the submit returns -ENXIO
\* when woken (-ETIMEDOUT if not woken in time), never a count.
C3_BlockingNack ==
    ~thr.atomic =>
      /\ NackEvent =>
            /\ "ID_NACK" \in priv.flags
            /\ Wrote("ICMIER", {"MST"}) /\ io.ICMIER = {"MST"}
            /\ priv.pos = obs.ev.pos /\ priv.msg_idx = obs.ev.msg_idx
      /\ "ID_NACK" \in priv.flags =>
            /\ ~Wrote("ICMCR", RCAR_BUS_PHASE_STOP) /\ "FSB" \notin io.ICMCR
            /\ ~WroteTo("ICRXTX") /\ ~WroteTo("ICMAR")
      /\ obs.ev.src = "irq" /\ "ID_NACK" \in obs.ev.flags =>
            /\ obs.ev.msr \cap DataStatus = {}
            /\ priv.pos = obs.ev.pos /\ priv.msg_idx = obs.ev.msg_idx
            /\ "MST" \in obs.ev.msr => "ID_DONE" \in priv.flags
      /\ HasReturned /\ "ID_NACK" \in priv.flags =>
            /\ thr.ret \in {Err(ENXIO), Err(ETIMEDOUT)}
            /\ obs.ev.src = "wake" => thr.ret = Err(ENXIO)

\* the target did not acknowledge, the automatic stop was handled and the
\* blocking submit returned -ENXIO
C3_Witness ==
    /\ ~thr.atomic /\ HasReturned /\ hw.nacked
    /\ {"ID_NACK", "ID_DONE"} \subseteq priv.flags
    /\ thr.ret = Err(ENXIO)

\* the handler ran on an arbitration-lost status, and the entry did not go
\* on to re-initialize the controller after a timeout
ArbLostEvent ==
    Handled /\ "MAL" \in obs.ev.msr /\ thr.ret # Err(ETIMEDOUT)

DisableAndClear == << <<"ICMIER", {}>>, <<"ICMSR", {}>> >>

\* what both claims about the event say besides the register writes
ArbLostOutcome ==
    /\ ArbLostEvent =>
          /\ {"ID_DONE", "ID_ARBLOST"} \subseteq priv.flags
          /\ priv.pos = obs.ev.pos /\ priv.msgs_left = obs.ev.msgs_left
          /\ ~WroteTo("ICMAR") /\ ~WroteTo("ICRXTX")
    /\ HasReturned /\ "ID_ARBLOST" \in priv.flags =>
          /\ thr.ret \in {Err(EAGAIN), Err(ETIMEDOUT)}
          /\ obs.ev.src = "wake" => thr.ret = Err(EAGAIN)

C5_AtomicNackSetsDone ==
    thr.atomic =>
      /\ obs.ev.src = "poll" /\ {"MNR", "MST"} \subseteq obs.ev.msr
            /\ "MAL" \notin obs.ev.msr
         => "ID_DONE" \in priv.flags
      /\ HasReturned /\ "ID_NACK" \in priv.flags /\ thr.ret # Err(ETIMEDOUT)
         => thr.ret = Err(ENXIO)

\* C6: in every state of a transfer, whatever master events (late data
\* events after the last byte included), DMA completions and length
\* updates of a length-prefixed receive have happened,
\* 0 <= pos <= msg->len and msgs_left >= 0, and every byte-wise access to
\* the buffer used an index below msg->len.
C6_PositionInRange ==
    /\ 0 <= priv.pos /\ priv.pos <= priv.msg.len
    /\ priv.msgs_left >= 0
    /\ ~obs.oob

\* a length-prefixed receive grew to 8 bytes, took a DMA offload, and a
\* late data event came after its last byte
C6_Witness ==
    /\ priv.msg.recv_len /\ priv.msg.len = RCAR_MIN_DMA_LEN
    /\ obs.dma.idx = priv.msg_idx /\ obs.unmaps >= 1
    /\ hw.spur >= 1 /\ obs.ev.src = "irq"
    /\ obs.ev.pos = obs.ev.len /\ "MDR" \in obs.ev.msr

BadCount(b) == b = 0 \/ b > I2C_SMBUS_BLOCK_MAX

\* the handler ran on the first byte of a length-prefixed receive
FirstByteEvent ==
    /\ Handled /\ priv.msg.recv_len /\ obs.ev.pos = 0
    /\ obs.ev.msg_idx = priv.msg_idx
    /\ obs.ev.msr \cap {"MAL", "MNR", "MST", "MAT"} = {}
    /\ "MDR" \in obs.ev.msr

\* C7: in a length-prefixed receive, a first received byte of 0 or above
\* I2C_SMBUS_BLOCK_MAX makes the handler set ID_DONE and ID_EPROTO in the
\* event that takes the byte, msg->len, the current message and msgs_left
\* stay as they were, no further byte is stored, and the submit returns
\* -EPROTO (-ETIMEDOUT if not woken in time).
C7_BadLengthIsProtocolError ==
    /\ FirstByteEvent /\ BadCount(hw.count) =>
          /\ {"ID_DONE", "ID_EPROTO"} \subseteq priv.flags
          /\ priv.msg.len = obs.ev.len /\ priv.msg_idx = obs.ev.msg_idx
          /\ priv.msgs_left = obs.ev.msgs_left /\ priv.pos = 0
    /\ priv.msg.recv_len /\ BadCount(hw.count) /\ priv.msg.buf[0] = hw.count =>
          /\ {"ID_DONE", "ID_EPROTO"} \subseteq priv.flags
          /\ obs.pio = {0}
          /\ \A i \in DOMAIN priv.msg.buf : i > 0 => priv.msg.buf[i] = Untouched
    /\ HasReturned /\ "ID_EPROTO" \in priv.flags =>
          /\ thr.ret \in {Err(EPROTO), Err(ETIMEDOUT)}
          /\ obs.ev.src = "wake" => thr.ret = Err(EPROTO)

\* a DMA offload of the current message was submitted
Offloaded == obs.dma # NoDma /\ obs.dma.idx = priv.msg_idx

\* C10: a DMA offload is submitted only for a message of 8 bytes or more;
\* it covers msg->len - 2 bytes from the start of a receive buffer (the
\* last two bytes are stored byte-wise) and msg->len - 1 bytes from offset
\* 1 of a transmit buffer; a message of 7 bytes or less goes byte by byte
\* whatever its flags.
C10_DmaOnlyFromEightBytes ==
    /\ obs.dma # NoDma =>
          /\ obs.dma.msglen >= RCAR_MIN_DMA_LEN
          /\ obs.dma.rd => obs.dma.off = 0 /\ obs.dma.len = obs.dma.msglen - 2
          /\ ~obs.dma.rd => obs.dma.off = 1 /\ obs.dma.len = obs.dma.msglen - 1
    /\ priv.dma_direction # DMA_NONE \/ io.ICDMAER # {} \/ obs.inflight =>
          /\ priv.msg.len >= RCAR_MIN_DMA_LEN
          /\ Offloaded /\ obs.dma.msglen = priv.msg.len
          /\ priv.sg_len = obs.dma.len /\ priv.sg_off = obs.dma.off
    /\ priv.msg.rd /\ Offloaded /\ priv.pos = priv.msg.len =>
          {priv.msg.len - 2, priv.msg.len - 1} \subseteq obs.pio
    /\ priv.msg.len < RCAR_MIN_DMA_LEN =>
          /\ ~Offloaded
          /\ priv.msg.rd /\ priv.pos = priv.msg.len =>
                obs.pio = 0..(priv.msg.len - 1)

\* a receive of exactly 8 bytes finished: 6 bytes by DMA, the last two
\* byte-wise
C10_Witness ==
    /\ HasReturned /\ thr.ret = Count(thr.num)
    /\ priv.msg.rd /\ ~priv.msg.recv_len /\ priv.msg.len = RCAR_MIN_DMA_LEN
    /\ Offloaded /\ obs.dma.len = 6 /\ obs.dma.off = 0
    /\ obs.pio = {6, 7} /\ priv.pos = priv.msg.len

\* C11: in both modes a transfer returns -ETIMEDOUT only if ID_DONE was
\* not set for it: a transfer whose ID_DONE is set in the wait or poll
\* iteration in which the deadline expires is reported by its terminal
\* flags.
C11_TimeoutOnlyWithoutDone ==
    HasReturned /\ thr.ret = Err(ETIMEDOUT) => "ID_DONE" \notin priv.flags

\* the blocking submit has just returned from a wait that timed out
TimedOut == HasReturned /\ ~thr.atomic /\ obs.ev.src = "timeout"

\* the step in which the wait of a blocking transfer times out
TimeoutStep == thr.pc = "wait" /\ thr'.pc = "ret" /\ obs'.ev.src = "timeout"

\* C12: when a blocking transfer times out, an offload in flight is
\* terminated and its buffer unmapped (ICDMAER = 0 is the last write of
\* that), after it the master registers are initialized again, and the
\* submit returns -ETIMEDOUT; at the return the DMA direction is none,
\* nothing is mapped or in flight, and ICDMAER and ICMIER are 0.
C12_TimeoutCancelsDmaFirst ==
    /\ [](TimedOut =>
            /\ thr.ret = Err(ETIMEDOUT)
            /\ priv.dma_direction = DMA_NONE /\ io.ICDMAER = {}
            /\ ~obs.inflight /\ obs.mapped = 0
            /\ io.ICMIER = {}
            /\ Wrote("ICMIER", {}) /\ Wrote("ICMCR", {"MDBS"}))
    /\ [][TimeoutStep =>
            IF priv.dma_direction # DMA_NONE
            THEN /\ obs'.terminated = obs.terminated + 1
                 /\ obs'.unmaps = obs.unmaps + 1
                 /\ obs'.wr[1] = <<"ICDMAER", {}>>
                 /\ obs'.wr[2] = <<"ICMIER", {}>>
            ELSE /\ obs'.terminated = obs.terminated
                 /\ obs'.wr[1] = <<"ICMIER", {}>>]_vars

\* a blocking transfer timed out with a receive offload in flight, which
\* was terminated
C12_Witness ==
    /\ TimedOut /\ thr.ret = Err(ETIMEDOUT)
    /\ obs.terminated = 1 /\ obs.unmaps = 1 /\ obs.dma.rd
    /\ obs.wr[1] = <<"ICDMAER", {}>>

(***************************************************************************)
(* Properties of the responder registration API and of the start of a      *)
(* transfer (specification SlaveSpec)                                      *)
(***************************************************************************)
\* the step of a call of rcar_reg_slave() / rcar_unreg_slave()
RegStep == obs'.sl.calls = obs.sl.calls + 1 /\ obs'.sl.op = "reg"
UnregStep == obs'.sl.calls = obs.sl.calls + 1 /\ obs'.sl.op = "unreg"

\* a registration was made and the last call has removed it
Unregistered == ~priv.slave /\ obs.sl.op = "unreg" /\ obs.pm.slave.get >= 1

\* C13: after a registration and two calls of unregister, the second
\* unregister returns an error or changes nothing: it writes no responder
\* register and does not call pm_runtime_put() again, so that the
\* references put never exceed those rcar_reg_slave() took.
C13_SecondUnregisterChangesNothing ==
    /\ [](obs.pm.slave.get >= 1 => obs.pm.slave.put <= obs.pm.slave.get)
    /\ [][UnregStep /\ Unregistered =>
            /\ obs'.wr = <<>>
            /\ obs'.pm = obs.pm
            /\ obs'.sl.ret # OK \/ (priv' = priv /\ io' = io)]_vars

\* C14: rcar_reg_slave() returns -EBUSY when a registration is active and
\* -EAFNOSUPPORT when the client has I2C_CLIENT_TEN (-EBUSY if both); a
\* call that fails leaves priv->slave, all registers and the power
\* references as they were.
C14_RegisterFailsUnchanged ==
    [][RegStep =>
          /\ priv.slave => obs'.sl.ret = EBUSY
          /\ ~priv.slave /\ obs'.sl.ten => obs'.sl.ret = EAFNOSUPPORT
          /\ ~priv.slave /\ ~obs'.sl.ten => obs'.sl.ret = OK /\ priv'.slave
          /\ obs'.sl.ret # OK =>
                /\ priv' = priv /\ io' = io /\ obs'.pm = obs.pm
                /\ obs'.wr = <<>>]_vars

\* a second registration was refused with -EBUSY, the first one stays
C14_Witness ==
    /\ obs.ev.src = "reg_slave" /\ obs.sl.op = "reg" /\ obs.sl.ret = EBUSY
    /\ priv.slave /\ io.ICSAR = 32 /\ io.ICSIER = {"SAR"}
    /\ obs.pm.slave = [get |-> 1, put |-> 0] /\ obs.wr = <<>>

\* the step in which a transfer entry point is called
StartStep == thr.pc = "idle" /\ thr'.pc # "idle"

\* what the bus recovery of the barrier leaves in ICMCR
RecoveryWrite == <<"ICMCR", {"MDBS", "OBPC", "FSDA", "FSCL"}>>

\* the register writes of a driver entry after those of the barrier
AfterBarrier(wr) == IF wr # <<>> /\ wr[1] = RecoveryWrite THEN Tail(wr) ELSE wr

\* C15: in every transfer the bus barrier runs before any register is
\* initialized; when the barrier fails (the bus stays busy) or, on Gen3
\* and later in a blocking transfer, the reset fails or is refused with
\* -EISCONN because a responder is registered, the submit returns that
\* error with no register initialized (only the barrier's recovery may have
\* written ICMCR), no message armed, and pos, the current message and
\* msgs_left as they were.
C15_BarrierBeforeInit ==
    [][StartStep =>
          /\ \A i \in 2..Len(obs'.wr) : obs'.wr[i] # RecoveryWrite
          /\ thr'.pc # "ret" =>
                /\ thr'.ret = Pending
                /\ AfterBarrier(obs'.wr)[1] = <<"ICMIER", {}>>
                /\ priv'.msg_idx = 1 /\ priv'.msgs_left = thr'.num
          /\ ~thr'.atomic /\ priv.devtype >= I2C_RCAR_GEN3 /\ priv.slave =>
                thr'.ret \in {Err(EBUSY_BUS), Err(EISCONN)}
          /\ thr'.atomic \/ priv.devtype < I2C_RCAR_GEN3 =>
                thr'.ret \in {Err(EBUSY_BUS), Pending}
          /\ thr'.pc = "ret" =>
                /\ thr'.ret \in {Err(EBUSY_BUS), Err(EISCONN), Err(EIO_RESET)}
                /\ AfterBarrier(obs'.wr) = <<>>
                /\ \A r \in DOMAIN io : r # "ICMCR" => io'[r] = io[r]
                /\ priv'.pos = priv.pos /\ priv'.msg = priv.msg
                /\ priv'.msg_idx = priv.msg_idx
                /\ priv'.msgs_left = priv.msgs_left]_vars

\* a blocking transfer on Gen3 was refused with -EISCONN while a responder
\* is registered
C15_Witness ==
    /\ obs.ev.src = "xfer" /\ HasReturned /\ thr.ret = Err(EISCONN)
    /\ priv.devtype = I2C_RCAR_GEN3 /\ priv.slave
    /\ obs.wr = <<>> /\ priv.msg_idx = 0 /\ io.ICSIER = {"SAR"}

(***************************************************************************)
(* Properties of the DMA offload within a transfer (specification Spec)    *)
(***************************************************************************)
\* the step of a master interrupt
IrqStep == thr.pc = "wait" /\ thr'.pc = "wait" /\ obs' # obs
           /\ obs'.ev.src = "irq"

\* the controller with no DMA channel to use: IS_ERR(chan) for both
DmaUnavailable(c) == [c EXCEPT !.priv.dma_tx = FALSE, !.priv.dma_rx = FALSE]

\* what a transfer is to its caller and to the bus: the position, the
\* message and its buffer, the messages left, the transient flags, the
\* bytes put on the data port and stored, and the master registers
Transfer(c) ==
    <<c.priv.pos, c.priv.msg, c.priv.msg_idx, c.priv.msgs_left,
      c.priv.flags \cap ID_TRANSIENT, c.obs.tx, c.obs.pio,
      c.io.ICMCR, c.io.ICMSR, c.io.ICMIER, c.io.ICMAR>>

\* C16: a mapping, descriptor preparation or submission failure is not
\* reported: the event in which the offload attempt fails does to the
\* transfer what it does with no DMA channel, byte-wise; a transfer in
\* which every attempt failed returns what the flags say, never an error
\* of the DMA engine, and a message it completed went through the data
\* port in order or was stored byte by byte up to its last byte.
C16_DmaFailureFallsBackToBytes ==
    /\ [][IrqStep /\ obs'.fails > obs.fails /\ obs'.dma = obs.dma =>
            \E n \in Msgs \cup {NoMsg} :
               Transfer([priv |-> priv', io |-> io', obs |-> obs']) =
               Transfer(irqhandler(
                            DmaUnavailable(Event(Cur, "irq", ReadMsr(Cur))),
                            [next |-> n, dma |-> "ok", sl |-> FALSE]))]_vars
    /\ [](HasReturned /\ ~thr.atomic /\ obs.fails >= 1 /\ obs.dma = NoDma =>
            /\ thr.ret.err \in {OK, ENXIO, EAGAIN, EPROTO, ETIMEDOUT}
            /\ thr.ret.err = OK =>
                  /\ thr.ret.count = thr.num /\ priv.pos = priv.msg.len
                  /\ ~priv.msg.rd => obs.tx = WholeBuffer(priv.msg.len)
                  /\ priv.msg.rd => obs.pio = 0..(priv.msg.len - 1))

\* the submission of the offload of an 8-byte write failed and the message
\* went out byte by byte
C16_Witness ==
    /\ HasReturned /\ ~thr.atomic /\ thr.ret = Count(1)
    /\ obs.fails = 1 /\ obs.maps = 1 /\ obs.unmaps = 1 /\ obs.dma = NoDma
    /\ ~priv.msg.rd /\ priv.msg.len = RCAR_MIN_DMA_LEN
    /\ obs.tx = WholeBuffer(RCAR_MIN_DMA_LEN)

\* C17: during an atomic transfer no buffer is mapped for DMA and no
\* offload is attempted or submitted, the DMA cleanup with termination is
\* never run, and ICMIER is never written with a value other than 0.
C17_AtomicWithoutDma ==
    thr.atomic =>
      /\ obs.maps = 0 /\ obs.mapped = 0 /\ obs.fails = 0 /\ obs.dma = NoDma
      /\ ~obs.inflight /\ obs.terminated = 0 /\ obs.unmaps = 0
      /\ priv.dma_direction = DMA_NONE /\ io.ICDMAER = {}
      /\ io.ICMIER = {}
      /\ \A i \in 1..Len(obs.wr) :
            obs.wr[i][1] = "ICMIER" => obs.wr[i][2] = {}

\* an atomic transfer of an 8-byte write marked DMA-safe, with a transmit
\* channel at hand, went out byte by byte
C17_Witness ==
    /\ thr.atomic /\ HasReturned /\ thr.ret = Count(1)
    /\ priv.dma_tx /\ priv.msg.dma_safe /\ ~priv.msg.rd
    /\ priv.msg.len = RCAR_MIN_DMA_LEN
    /\ obs.tx = WholeBuffer(RCAR_MIN_DMA_LEN) /\ obs.maps = 0

\* the transient fields of the controller context
TransientFields(p) ==
    <<p.pos, p.flags \cap ID_TRANSIENT, p.msg_idx, p.msgs_left>>

\* C18: while a blocking transfer is in flight, from the arming of its
\* first message until the waiting thread is woken or times out, only the
\* interrupt handler writes pos, the transient flags, the current message
\* and msgs_left: the DMA completion callback and the waiting thread do
\* not.
C18_HandlerIsOnlyWriter ==
    [][thr.pc = "wait" /\ TransientFields(priv') # TransientFields(priv)
          => IrqStep]_vars

(***************************************************************************)
(* Properties with a data-phase interrupt taken during a transmit offload  *)
(* (specification LateIrqSpec)                                             *)
(***************************************************************************)
\* C19: at most one buffer is mapped and one offload in flight at any
\* time: a buffer is mapped, and an offload submitted, only while
\* dma_direction is DMA_NONE, also when a transmit data-phase event comes
\* while pos is still 1 because the transmit offload submitted before has
\* not completed.
C19_OneDmaAtATime ==
    /\ [](obs.mapped <= 1)
    /\ [][obs'.maps > obs.maps => priv.dma_direction = DMA_NONE]_vars

(***************************************************************************)
(* Receive offloads within one batch (specification Spec); obs.rx counts   *)
(* the receive offloads submitted.                                         *)
(***************************************************************************)
NoRxDma == "ID_P_NO_RXDMA" \in priv.flags

\* C20: on Gen3 and later at most one receive offload is submitted within
\* one batch; once it has been cleaned up ID_P_NO_RXDMA is set, no receive
\* offload is submitted while it is, and a later receive message of the
\* batch is stored byte by byte; the flag is cleared only by a later
\* blocking transfer, after its reset.  Before Gen3 the flag is never set.
C20_OneRxDmaPerBatch ==
    /\ [](priv.devtype >= I2C_RCAR_GEN3 =>
            /\ obs.rx <= 1
            /\ obs.rx = 1 /\ priv.dma_direction = DMA_NONE => NoRxDma
            /\ NoRxDma => /\ priv.dma_direction # DMA_FROM_DEVICE
                          /\ "RMDMAE" \notin io.ICDMAER
            /\ obs.rx = 1 /\ priv.msg.rd /\ obs.dma.idx < priv.msg_idx
                  /\ priv.pos = priv.msg.len /\ "ID_EPROTO" \notin priv.flags
               => obs.pio = 0..(priv.msg.len - 1))
    /\ [](priv.devtype < I2C_RCAR_GEN3 => ~NoRxDma)
    /\ [][/\ obs'.rx > obs.rx => ~NoRxDma
          /\ NoRxDma /\ "ID_P_NO_RXDMA" \notin priv'.flags =>
                /\ thr.pc = "idle" /\ thr'.pc = "wait"
                /\ obs'.ev.src = "xfer"]_vars

\* on Gen3, a batch of two 8-byte reads: the first went by DMA, the second
\* byte by byte
C20_Witness ==
    /\ priv.devtype = I2C_RCAR_GEN3 /\ HasReturned /\ thr.ret = Count(2)
    /\ obs.rx = 1 /\ obs.dma.idx = 1 /\ obs.dma.rd /\ NoRxDma
    /\ priv.msg_idx = 2 /\ priv.msg.rd /\ priv.msg.dma_safe
    /\ priv.msg.len = RCAR_MIN_DMA_LEN /\ priv.dma_rx
    /\ obs.pio = 0..(RCAR_MIN_DMA_LEN - 1)

(***************************************************************************)
(* The start phase (specifications Spec and ResidueSpec)                   *)
(***************************************************************************)
RepAfterRd == "ID_REP_AFTER_RD" \in priv.flags
HandlerStep == obs' # obs /\ obs'.ev.src \in {"irq", "poll"}
StartWrite == <<"ICMCR", RCAR_BUS_PHASE_START>>
DataWrite == <<"ICMCR", RCAR_BUS_PHASE_DATA>>
WritesIn(wr, w) == Cardinality({i \in DOMAIN wr : wr[i] = w})

\* C21: the start phase is written to ICMCR exactly once for every message
\* of a batch.  The receive handler writes it, and sets ID_REP_AFTER_RD,
\* when a read message that is not the last has one byte left; the
\* preparation of the next message then writes ICMAR and no start phase;
\* while ID_REP_AFTER_RD is set the front end writes no data phase; in
\* every other case the preparation of a message writes the start phase.
C21_StartPhaseOncePerMessage ==
    /\ [](InTransfer =>
             obs.starts = priv.msg_idx + (IF RepAfterRd THEN 1 ELSE 0))
    /\ [][/\ priv'.msg_idx # priv.msg_idx =>
                /\ WritesIn(obs'.wr, <<"ICMAR",
                                       i2c_8bit_addr_from_msg(priv'.msg)>>) = 1
                /\ WritesIn(obs'.wr, StartWrite) = (IF RepAfterRd THEN 0 ELSE 1)
          /\ HandlerStep /\ RepAfterRd => WritesIn(obs'.wr, DataWrite) = 0
          /\ ~RepAfterRd /\ "ID_REP_AFTER_RD" \in priv'.flags =>
                /\ HandlerStep /\ priv.msg.rd
                /\ "ID_LAST_MSG" \notin priv.flags
                /\ priv'.msg_idx = priv.msg_idx
                /\ priv'.pos + 1 = priv'.msg.len
                /\ WritesIn(obs'.wr, StartWrite) = 1
          /\ HandlerStep /\ priv'.msg_idx = priv.msg_idx
                /\ WritesIn(obs'.wr, StartWrite) > 0 =>
                ~RepAfterRd /\ "ID_REP_AFTER_RD" \in priv'.flags]_vars

(***************************************************************************)
(* The order of status clearing and message preparation (specification     *)
(* Spec)                                                                   *)
(***************************************************************************)
At(wr, reg) == {i \in DOMAIN wr : wr[i][1] = reg}
Prepared == priv'.msg_idx # priv.msg_idx
AddressAt == At(obs'.wr, "ICMAR")
StartAt == {i \in DOMAIN obs'.wr : obs'.wr[i] = StartWrite}
StatusAt == At(obs'.wr, "ICMSR")

\* C22: for the first message of a batch ICMSR is cleared before the
\* address and the start phase are written, and not after them; for every
\* later message the address, and the start phase if it is written, are
\* written before the status bits of the event are cleared (the first
\* write of ICMSR that follows), and ICMSR is not written before them.
C22_StatusClearOrder ==
    [][Prepared =>
         /\ Cardinality(AddressAt) = 1
         /\ \A a \in AddressAt :
              IF priv'.msg_idx = 1
              THEN /\ a > 1 /\ obs'.wr[a - 1] = <<"ICMSR", {}>>
                   /\ \A t \in StartAt : t > a
                   /\ \A m \in StatusAt : m < a
              ELSE /\ HandlerStep
                   /\ \A t \in StartAt : t > a
                   /\ StatusAt # {}
                   /\ \A m \in StatusAt :
                        /\ m > a /\ \A t \in StartAt : m > t
                        /\ (\A n \in StatusAt : m <= n) =>
                              /\ MSR_BITS \ obs'.wr[m][2] # {}
                              /\ MSR_BITS \ obs'.wr[m][2] \subseteq obs'.ev.msr]_vars

\* the handler has gone on to the second message and written its start
\* phase
C22_Witness ==
    /\ Handled /\ obs.ev.msg_idx = 1 /\ priv.msg_idx = 2 /\ ~priv.msg.rd
    /\ obs.ev.msr = {"MDE"}
    /\ obs.wr = <<DataWrite,
                  <<"ICMAR", i2c_8bit_addr_from_msg(priv.msg)>>,
                  <<"ICMIER", RCAR_IRQ_SEND>>, StartWrite,
                  <<"ICMSR", MSR_BITS \ {"MDE"}>>>>

(***************************************************************************)
(* The flags across a message preparation (specification ResidueSpec)      *)
(***************************************************************************)
Persistent(flags) == flags \cap ID_P_MASK

\* what preparing a message makes of the flags f with left messages left
PreparedFlags(f, left) ==
    Persistent(f) \cup (IF left = 1 THEN {"ID_LAST_MSG"} ELSE {})

\* the persistent flags a transfer entry leaves before it prepares the
\* first message
EntryFlags ==
    IF thr'.atomic THEN Persistent(priv.flags) \ {"ID_P_NOT_ATOMIC"}
    ELSE (Persistent(priv.flags) \cup {"ID_P_NOT_ATOMIC"}) \
         (IF priv.devtype >= I2C_RCAR_GEN3 THEN {"ID_P_NO_RXDMA"} ELSE {})

\* C23: preparing a message, the first or a later one, leaves every
\* persistent flag as it is, clears every transient flag, sets pos to 0 and
\* sets ID_LAST_MSG exactly when msgs_left is 1.
C23_PrepareKeepsPersistentFlags ==
    /\ [](LET p == rcar_i2c_prepare_msg(Cur).priv
          IN  /\ p.flags = PreparedFlags(priv.flags, priv.msgs_left)
              /\ p.pos = 0)
    /\ [][Prepared =>
            /\ priv'.pos = 0
            /\ priv'.flags \cap {"ID_REP_AFTER_RD", "ID_DONE", "ID_ARBLOST",
                                 "ID_NACK", "ID_EPROTO"} = {}
            /\ "ID_LAST_MSG" \in priv'.flags <=> priv'.msgs_left = 1
            /\ Persistent(priv'.flags) =
                  (IF HandlerStep THEN Persistent(priv.flags) ELSE EntryFlags)]_vars

\* on Gen3 the handler has gone on from a read, with ID_REP_AFTER_RD and
\* ID_P_NO_RXDMA set, to the last message
C23_Witness ==
    /\ Handled /\ obs.ev.msg_idx = 1 /\ priv.msg_idx = 2 /\ priv.pos = 0
    /\ {"ID_REP_AFTER_RD", "ID_P_NO_RXDMA", "ID_P_NOT_ATOMIC"}
          \subseteq obs.ev.flags
    /\ priv.flags = Persistent(obs.ev.flags) \cup {"ID_LAST_MSG"}
    /\ priv.msgs_left = 1

(***************************************************************************)
(* Responder events (specification SlaveIrqSpec)                           *)
(***************************************************************************)
\* the step is a run of the interrupt handler
HandlerRun == obs'.ev.src = "irq" /\ hw'.sev = hw.sev /\ hw'.bus = hw.bus
EnabledSlaveStatus == io.ICSSR \cap io.ICSIER

\* C24: the handler delivers a responder event only when the master status
\* it read is zero and a registration is stored, under every interleaving
\* of the statements of register and unregister with interrupts and
\* responder statuses; rcar_i2c_slave_irq() returns true exactly when an
\* enabled responder status bit was set.
C24_SlaveEventsOnlyWhenRegistered ==
    /\ [](~obs.orphan)
    /\ [](io.ICSIER # {} => priv.slave)
    /\ [][HandlerRun =>
            /\ obs'.sev # <<>> => ReadMsr(Cur) = {} /\ priv.slave /\ priv'.slave
            /\ obs'.sirq # "none" <=> ReadMsr(Cur) = {}
            /\ obs'.sirq = "true" <=>
                  ReadMsr(Cur) = {} /\ EnabledSlaveStatus # {}
            /\ obs'.sirq = "true" <=> obs'.sev # <<>>]_vars

\* after register, unregister, register an event has been delivered while
\* a transfer waits
C24_Witness ==
    /\ obs.sl.calls = 3 /\ api.pc = "idle" /\ priv.slave
    /\ obs.ev.src = "irq" /\ obs.sirq = "true"
    /\ obs.sev = <<"I2C_SLAVE_WRITE_REQUESTED">>
    /\ thr.pc = "wait"

(***************************************************************************)
(* DMA mappings and the end of a transfer                                  *)
(***************************************************************************)
\* C25: every successful DMA mapping is unmapped exactly once under every
\* interleaving of the completion callback with the waiter's forced
\* cleanup: the number of unmappings never exceeds the number of mappings,
\* and nothing is mapped once the submit call has returned.
C25_EveryMappingUnmappedOnce ==
    /\ [](obs.unmaps <= obs.maps)
    /\ [](obs.mapped \in {0, 1})
    /\ [](thr.pc = "ret" => obs.mapped = 0 /\ obs.unmaps = obs.maps)

\* the step is made by the interrupt handler or by the DMA callback
HandlerOrCallbackStep ==
    \/ isr.pc = "run" /\ isr'.pc = "idle"
    \/ obs'.ev.src \in {"irq", "dma"} /\ obs' # obs

\* C26: once the blocking submit has returned, no step of the interrupt
\* handler or of the DMA callback writes the message buffer, the position,
\* the flags or the number of messages left of that transfer.
C26_NoWriteAfterReturn ==
    [][thr.pc = "ret" /\ HandlerOrCallbackStep =>
          /\ priv'.msg.buf = priv.msg.buf /\ priv'.pos = priv.pos
          /\ priv'.flags = priv.flags /\ priv'.msgs_left = priv.msgs_left]_vars

(***************************************************************************)
(* The stop condition                                                      *)
(***************************************************************************)
\* the step sets ID_DONE
DoneSet == "ID_DONE" \notin priv.flags /\ "ID_DONE" \in priv'.flags
\* the controller has put a stop condition on the bus (after the stop
\* phase was written, or by itself after a NACK) and reports it
StopOnBus == "MST" \in io.ICMSR

\* C27: when ID_DONE is set for a transfer that issued a start and has not
\* lost arbitration, a stop condition was put on the bus before, also when
\* the transfer ends with -EPROTO.
C27_StopBeforeDone ==
    [][DoneSet /\ obs.starts >= 1 /\ "ID_ARBLOST" \notin priv'.flags
          => StopOnBus]_vars

(***************************************************************************)
(* Byte positions                                                          *)
(***************************************************************************)
\* the positions of the current message handed to DMA
DmaPositions ==
    IF Offloaded THEN obs.dma.off..(obs.dma.off + obs.dma.len - 1) ELSE {}

\* C28: no byte position of a message is handled both byte-wise and by
\* DMA: the range handed to DMA never includes a position the handler has
\* moved itself, position 0 of a length-prefixed receive and of a
\* transmit included.
C28_NoPositionTwice == [](DmaPositions \cap obs.pio = {})

====
